---- MODULE Spec2Model ----
(***************************************************************************)
(* A model of ts-countries: the Country record (src/country.ts), the      *)
(* CountryLoader cache (src/types.ts), CountryCollection.where             *)
(* (src/unnamed/part_003), CityLoader (src/CityLoader.ts) and GeoResolver  *)
(* (src/country.ts).                                                       *)
(*                                                                         *)
(* JavaScript objects live in a heap of cells, so that two references to   *)
(* one object are told apart from two equal objects.  A string is a        *)
(* sequence of symbols; "." is the dot, every other symbol is a character  *)
(* or an indivisible dot-free piece of text.                               *)
(***************************************************************************)
EXTENDS Integers, Sequences, FiniteSets, TLC

VARIABLES
  heap,          \* the objects of the program, by address
  source,        \* the data files: file name -> content, or "absent"
  countryCache,  \* CountryLoader.countryCache: key -> value, undefined if unset
  recs,          \* the Country instances alive, each with its attributes
  literal,       \* an attributes object a caller has written out, or undefined
  cityFiles,     \* the city data on disk: country code -> the cities read from it
  cityCache,     \* CityLoader.cache: country code -> the cities, once loaded
  divisionFiles, \* the division data on disk: country code -> the divisions
  served,        \* per cache key: what the first successful call since the
                 \* last invalidation returned (history, for the claims)
  last           \* the last call, its arguments and its outcome

vars == <<heap, source, countryCache, recs, literal, cityFiles, cityCache, divisionFiles,
          served, last>>

(***************************************************************************)
(* Bounds of the model.                                                    *)
(***************************************************************************)
\* the largest heap (in cells) from which a call that allocates may start
MaxHeap == 12
\* the largest number of Country instances alive
MaxRecs == 2

(***************************************************************************)
(* JavaScript values.                                                      *)
(***************************************************************************)
Null == [t |-> "null", s |-> <<>>, r |-> 0]

Undefined == [t |-> "undefined", s |-> <<>>, r |-> 0]

Str(s) == [t |-> "string", s |-> s, r |-> 0]

Obj(a) == [t |-> "object", s |-> <<>>, r |-> a]

\* a number (a natural number; none of the data is negative)
Num(n) == [t |-> "number", s |-> <<>>, r |-> n]

\* a method found on the prototype of an instance
Fn(name) == [t |-> "function", s |-> <<name>>, r |-> 0]

\* a one-symbol string
W(x) == Str(<<x>>)

\* JavaScript truthiness: null, undefined and "" are falsy
Truthy(v) ==
  ~(v.t \in {"null", "undefined"} \/ (v.t = "string" /\ v.s = <<>>)
      \/ (v.t = "number" /\ v.r = 0))

\* a || b
OrElse(a, b) == IF Truthy(a) THEN a ELSE b

\* a ?? b
Coalesce(a, b) == IF a.t \in {"null", "undefined"} THEN b ELSE a

(***************************************************************************)
(* Objects: a cell is the sequence of an object's own properties, in       *)
(* insertion order.                                                        *)
(***************************************************************************)
Entry(k, v) == [k |-> k, v |-> v]

\* an entry under a one-symbol key
E(k, v) == [k |-> <<k>>, v |-> v]

HasKey(cell, k) == \E i \in 1..Len(cell) : cell[i].k = k

KeyIndex(cell, k) == CHOOSE i \in 1..Len(cell) : cell[i].k = k

\* cell[k] = v
Put(cell, k, v) ==
  IF HasKey(cell, k) THEN [cell EXCEPT ![KeyIndex(cell, k)].v = v]
  ELSE Append(cell, Entry(k, v))

\* Object.prototype.hasOwnProperty.call(v, k), for v an object or a primitive
HasOwn(h, v, k) == v.t = "object" /\ HasKey(h[v.r], k)

\* v[k]: undefined when v has no such property
Prop(h, v, k) ==
  IF HasOwn(h, v, k) THEN h[v.r][KeyIndex(h[v.r], k)].v ELSE Undefined

\* key.split('.')
RECURSIVE Split(_)
Split(s) ==
  IF \E i \in 1..Len(s) : s[i] = "."
  THEN LET i == CHOOSE j \in 1..Len(s) :
                  s[j] = "." /\ \A m \in 1..(j - 1) : s[m] # "."
       IN <<SubSeq(s, 1, i - 1)>> \o Split(SubSeq(s, i + 1, Len(s)))
  ELSE <<s>>

\* the string a.b.c of the keys a, b, c
RECURSIVE Join(_)
Join(segs) ==
  IF Len(segs) = 1 THEN segs[1]
  ELSE segs[1] \o <<".">> \o Join(Tail(segs))

\* the path string of one-symbol keys
P(keys) == Join([i \in 1..Len(keys) |-> <<keys[i]>>])

(***************************************************************************)
(* Country.get and Country.set.                                            *)
(***************************************************************************)
\* the loop of Country.get over the segments of the key
RECURSIVE getSegments(_, _, _, _)
getSegments(h, result, segments, defaultValue) ==
  IF segments = <<>> THEN result
  ELSE IF Truthy(result) /\ result.t = "object" /\ HasOwn(h, result, Head(segments))
       THEN getSegments(h, Prop(h, result, Head(segments)), Tail(segments), defaultValue)
       ELSE defaultValue

\* Country.get(key, defaultValue) on a record whose attributes are attrs
Country_get(h, attrs, key, defaultValue) ==
  IF HasOwn(h, attrs, key)
  THEN Coalesce(Prop(h, attrs, key), defaultValue)
  ELSE getSegments(h, attrs, Split(key), defaultValue)

\* the loop of setNestedProperty: descends from the cell `current`
RECURSIVE setLoop(_, _, _, _)
setLoop(h, current, parts, value) ==
  IF Len(parts) = 1
  THEN [h EXCEPT ![current] = Put(@, parts[1], value)]
  ELSE LET part == Head(parts)
           cur == Prop(h, Obj(current), part)
       IN IF ~Truthy(cur) \/ cur.t # "object"
          THEN LET n == Len(h) + 1
                   h2 == Append([h EXCEPT ![current] = Put(@, part, Obj(n))], <<>>)
               IN setLoop(h2, n, Tail(parts), value)
          ELSE setLoop(h, cur.r, Tail(parts), value)

\* Country.setNestedProperty(obj, path, value): the heap after the call and
\* the copy it returns
setNestedProperty(h, obj, path, value) ==
  LET copy == Len(h) + 1
      h1 == Append(h, IF obj.t = "object" THEN h[obj.r] ELSE <<>>)
  IN [h |-> setLoop(h1, copy, Split(path), value), v |-> Obj(copy)]

(***************************************************************************)
(* The accessors of Country that the constructor and the collection use.   *)
(***************************************************************************)
\* String.prototype.toLowerCase, symbol by symbol
LowerSym(c) ==
  CASE c = "U" -> "u" [] c = "S" -> "s" [] c = "G" -> "g" [] c = "B" -> "b"
    [] c = "A" -> "a" [] c = "R" -> "r" [] c = "E" -> "e" [] c = "N" -> "n"
    [] c = "C" -> "c" [] c = "P" -> "p" [] c = "D" -> "d"
    [] OTHER -> c

toLowerCase(s) == [i \in 1..Len(s) |-> LowerSym(s[i])]

getName(h, attrs) ==
  LET name == Country_get(h, attrs, <<"name">>, Null)
  IN IF name.t = "string" THEN name
     ELSE OrElse(Country_get(h, attrs, P(<<"name", "common">>), Null), Null)

getOfficialName(h, attrs) ==
  OrElse(OrElse(Country_get(h, attrs, P(<<"name", "official">>), Null),
                Country_get(h, attrs, <<"official_name">>, Null)), Null)

\* the last of Object.keys(v)
LastKey(h, v) == IF h[v.r] = <<>> THEN Undefined ELSE Str(h[v.r][Len(h[v.r])].k)

\* Object.keys(v)[0]: undefined for an object without keys
FirstKey(h, v) == IF h[v.r] = <<>> THEN Undefined ELSE Str(h[v.r][1].k)

\* the body shared by getNativeName (field = common, alias = native_name)
\* and getNativeOfficialName (field = official, alias = native_official_name)
nativeField(h, attrs, languageCode, field, alias) ==
  LET langCode == IF Truthy(languageCode) THEN Str(toLowerCase(languageCode.s)) ELSE Null
      byCode == IF Truthy(langCode)
                THEN Country_get(h, attrs,
                       P(<<"name", "native">>) \o <<".">> \o langCode.s \o <<".", field>>, Null)
                ELSE Null
      nativeNames == Country_get(h, attrs, P(<<"name", "native">>), Null)
      firstLang == IF Truthy(nativeNames) /\ nativeNames.t = "object"
                   THEN FirstKey(h, nativeNames) ELSE Undefined
      first == IF Truthy(firstLang)
               THEN Prop(h, Prop(h, nativeNames, firstLang.s), <<field>>)
               ELSE Undefined
  IN IF Truthy(byCode) THEN byCode
     ELSE IF Truthy(first) THEN first
     ELSE OrElse(Country_get(h, attrs, <<alias>>, Null), Null)

getNativeName(h, attrs, languageCode) ==
  nativeField(h, attrs, languageCode, "common", "native_name")

getNativeOfficialName(h, attrs, languageCode) ==
  nativeField(h, attrs, languageCode, "official", "native_official_name")

getNativeNames(h, attrs) ==
  OrElse(Country_get(h, attrs, P(<<"name", "native">>), Null), Null)

getIsoAlpha2(h, attrs) ==
  OrElse(Country_get(h, attrs, <<"iso_3166_1_alpha2">>, Null), Null)

getIsoAlpha3(h, attrs) ==
  OrElse(Country_get(h, attrs, <<"iso_3166_1_alpha3">>, Null), Null)

getIsoNumeric(h, attrs) ==
  OrElse(Country_get(h, attrs, <<"iso_3166_1_numeric">>, Null), Null)

getRegion(h, attrs) ==
  OrElse(Country_get(h, attrs, P(<<"geo", "region">>), Null), Null)

\* the constructor's check without the two native names
mandatoryPresentWithoutNative(h, attrs) ==
  /\ Truthy(getName(h, attrs))
  /\ Truthy(getOfficialName(h, attrs))
  /\ Truthy(getIsoAlpha2(h, attrs))
  /\ Truthy(getIsoAlpha3(h, attrs))

\* the check of the constructor: the six accessors are all truthy
mandatoryPresent(h, attrs) ==
  /\ Truthy(getName(h, attrs))
  /\ Truthy(getOfficialName(h, attrs))
  /\ Truthy(getNativeName(h, attrs, Undefined))
  /\ Truthy(getNativeOfficialName(h, attrs, Undefined))
  /\ Truthy(getIsoAlpha2(h, attrs))
  /\ Truthy(getIsoAlpha3(h, attrs))

\* new Country(attributes): "ok", or the error it throws.  hasOwnProperty
\* called on null or undefined is a TypeError.
Country_constructor(h, attrs) ==
  IF attrs.t \in {"null", "undefined"} THEN "TypeError"
  ELSE IF ~mandatoryPresent(h, attrs) THEN "Missing mandatory country attributes!"
  ELSE "ok"

(***************************************************************************)
(* The data files and JSON.parse.  A file content is named by a string;    *)
(* parsing it allocates the cells of its tree at fresh addresses.          *)
(***************************************************************************)
US == <<"U", "S">>

us == <<"u", "s">>

USA == <<"U", "S", "A">>

CA == <<"C", "A">>

ca == <<"c", "a">>

CAN == <<"C", "A", "N">>

shortlist == <<"shortlist">>

longlist == <<"longlist">>

\* the cells of us.json, addressed from 1: root, name, native, eng, geo
CellsUS(common) == <<
  <<E("name", Obj(2)), E("iso_3166_1_alpha2", Str(US)), E("iso_3166_1_alpha3", Str(USA)),
    E("iso_3166_1_numeric", Str(<<"8", "4", "0">>)), E("geo", Obj(5))>>,
  <<E("common", W(common)), E("official", W("United States of America")),
    E("native", Obj(3))>>,
  <<E("eng", Obj(4))>>,
  <<E("common", W(common)), E("official", W("United States of America"))>>,
  <<E("region", W("Americas")), E("subregion", W("North America"))>> >>

\* a country of a list file in the flat form of CountryAttributes
FlatCountry(common, a2, a3, numeric) ==
  <<E("name", W(common)), E("official_name", W(common)), E("native_name", W(common)),
    E("native_official_name", W(common)), E("iso_3166_1_alpha2", Str(a2)),
    E("iso_3166_1_alpha3", Str(a3)), E("iso_3166_1_numeric", Str(numeric))>>

CellsList == <<
  <<E("US", Obj(2)), E("GB", Obj(3))>>,
  FlatCountry("United States", US, USA, <<"8", "4", "0">>),
  FlatCountry("United Kingdom", <<"G", "B">>, <<"G", "B", "R">>, <<"8", "2", "6">>) >>

CellsListModified == <<
  <<E("US", Obj(2))>>,
  FlatCountry("Modified United States", US, USA, <<"8", "4", "0">>) >>

\* a long list whose second country has no iso_3166_1_numeric
CellsListSparse == <<
  <<E("US", Obj(2)), E("GB", Obj(3))>>,
  FlatCountry("United States", US, USA, <<"8", "4", "0">>),
  SubSeq(FlatCountry("United Kingdom", <<"G", "B">>, <<"G", "B", "R">>, <<>>), 1, 6) >>

Digits == <<"0", "1", "2", "3", "4", "5", "6", "7", "8", "9">>

IsDigit(c) == \E i \in 1..Len(Digits) : Digits[i] = c

\* a whole number from -9 to 9 as the data files write a coordinate: a
\* decimal string
Format(n) == IF n < 0 THEN <<"-", Digits[(0 - n) + 1]>> ELSE <<Digits[n + 1]>>

\* the bounding boxes of the contents: each bound is recorded (a sequence
\* of one number) or not (the empty sequence)
Box(minLat, maxLat, minLon, maxLon) ==
  [min_latitude |-> minLat, max_latitude |-> maxLat,
   min_longitude |-> minLon, max_longitude |-> maxLon]

GeoBox(text) ==
  CASE text = "US boxed" -> Box(<<1>>, <<2>>, <<1>>, <<2>>)
    [] text = "US latitudes" -> Box(<<1>>, <<2>>, <<>>, <<>>)
    [] text = "CA" -> Box(<<-1>>, <<0>>, <<-1>>, <<0>>)
    [] text = "CA origin" -> Box(<<0>>, <<0>>, <<0>>, <<0>>)
    [] OTHER -> Box(<<>>, <<>>, <<>>, <<>>)

\* the entry of a bound in the geo block
Bound(k, b) == IF b = <<>> THEN <<>> ELSE <<Entry(<<k>>, Str(Format(b[1])))>>

\* the cells of a country file with a bounding box: root, name, native,
\* eng, geo
CellsBoxed(common, a2, a3, box) == <<
  <<E("name", Obj(2)), E("iso_3166_1_alpha2", Str(a2)), E("iso_3166_1_alpha3", Str(a3)),
    E("geo", Obj(5))>>,
  <<E("common", W(common)), E("official", W(common)), E("native", Obj(3))>>,
  <<E("eng", Obj(4))>>,
  <<E("common", W(common)), E("official", W(common))>>,
  Bound("min_latitude", box.min_latitude) \o Bound("max_latitude", box.max_latitude)
    \o Bound("min_longitude", box.min_longitude)
    \o Bound("max_longitude", box.max_longitude) >>

\* what a well-formed content parses to: the root value and the cells
Document(text) ==
  CASE text = "null" -> [v |-> Null, cells |-> <<>>]
    [] text = "{}" -> [v |-> Obj(1), cells |-> << <<>> >>]
    [] text = "US" -> [v |-> Obj(1), cells |-> CellsUS("United States")]
    [] text = "US modified" -> [v |-> Obj(1), cells |-> CellsUS("Modified United States")]
    [] text = "LIST" -> [v |-> Obj(1), cells |-> CellsList]
    [] text = "LIST modified" -> [v |-> Obj(1), cells |-> CellsListModified]
    [] text = "LIST sparse" -> [v |-> Obj(1), cells |-> CellsListSparse]
    [] text \in {"US boxed", "US latitudes"}
         -> [v |-> Obj(1), cells |-> CellsBoxed("United States", US, USA, GeoBox(text))]
    [] text \in {"CA", "CA origin"}
         -> [v |-> Obj(1), cells |-> CellsBoxed("Canada", CA, CAN, GeoBox(text))]

Malformed == "{ \"invalid\": JSON"

\* the files of the data directory and the contents each may be given
Files == {us, ca, shortlist, longlist}

Contents(file) ==
  IF file = us THEN {"absent", Malformed, "null", "{}", "US", "US modified"}
  ELSE IF file = ca THEN {"CA"}
  ELSE IF file = shortlist THEN {"LIST", "LIST modified"}
  ELSE {"LIST"}

\* the value v moved to a heap whose first free address is base + 1
Relocate(v, base) == IF v.t = "object" THEN Obj(v.r + base) ELSE v

\* the objects of doc created on heap h: the heap with the new cells, and
\* the value
Allocate(h, doc) ==
  LET cells == [i \in 1..Len(doc.cells) |->
                 [j \in 1..Len(doc.cells[i]) |->
                   Entry(doc.cells[i][j].k, Relocate(doc.cells[i][j].v, Len(h)))]]
  IN [h |-> h \o cells, v |-> Relocate(doc.v, Len(h))]

\* JSON.parse(text) on heap h: a SyntaxError, or the heap with the new
\* cells and the value
JSON_parse(h, text) ==
  IF text = Malformed THEN [ok |-> FALSE, h |-> h, v |-> Undefined]
  ELSE LET a == Allocate(h, Document(text)) IN [ok |-> TRUE, h |-> a.h, v |-> a.v]

\* getFile with the existence check lost: a missing file reads as "{}"
getFileWithoutCheck(src, file) ==
  [ok |-> TRUE, text |-> IF src[file] = "absent" THEN "{}" ELSE src[file]]

\* CountryLoader.getFile: throws when the file does not exist
getFile(src, file) ==
  IF src[file] = "absent" THEN [ok |-> FALSE, text |-> ""]
  ELSE [ok |-> TRUE, text |-> src[file]]

\* the country codes with city data, and the state without any
CityCodes == {us, ca}

NoCityFiles == [c \in CityCodes |-> <<>>]

NoCityCache == [c \in CityCodes |-> [has |-> FALSE, cities |-> <<>>]]

\* no country has a division file
NoDivisionFiles == [c \in CityCodes |-> [exists |-> FALSE, divisions |-> <<>>]]

(***************************************************************************)
(* The record of the last call.                                            *)
(***************************************************************************)
\* "no value yet" of the history variable served
NotServed == [t |-> "none", s |-> <<>>, r |-> 0]

NoCall ==
  [op |-> "none", id |-> <<>>, hydrate |-> FALSE, outcome |-> "none",
   ret |-> Undefined, loaded |-> FALSE, content |-> "",
   cacheBefore |-> [f \in Files |-> Undefined], servedBefore |-> NotServed,
   key |-> <<>>, value |-> Undefined, r |-> 0, made |-> 0,
   views |-> <<>>, shadowed |-> FALSE, operator |-> Undefined, result |-> <<>>,
   keyIsNull |-> FALSE, latitude |-> 0, longitude |-> 0, maxDistanceKm |-> Undefined]

\* the history of what each key served, after a call on id that ended in
\* outcome and returned ret
Serve(id, outcome, ret) ==
  IF outcome = "ok" /\ served[id] = NotServed
  THEN [served EXCEPT ![id] = ret] ELSE served

(***************************************************************************)
(* Garbage collection.  A state keeps the cells its references reach, and  *)
(* numbers them in the order a walk from the references meets them: the    *)
(* program can observe neither an unreachable object nor an address.       *)
(***************************************************************************)
FileSeq == <<us, ca, shortlist, longlist>>

\* Object.values(v) of an object
Values(h, v) == [i \in 1..Len(h[v.r]) |-> h[v.r][i].v]

\* the addresses reachable from the values todo, in depth-first order
RECURSIVE Reach(_, _, _)
Reach(h, order, todo) ==
  IF todo = <<>> THEN order
  ELSE LET v == Head(todo)
       IN IF v.t # "object" \/ (\E i \in 1..Len(order) : order[i] = v.r)
          THEN Reach(h, order, Tail(todo))
          ELSE Reach(h, Append(order, v.r), Values(h, v) \o Tail(todo))

\* the references a state holds
Roots(cache, rs, sv, l) ==
  <<literal>>
    \o [i \in 1..Len(FileSeq) |-> cache[FileSeq[i]]]
    \o [i \in 1..Len(rs) |-> rs[i].attributes]
    \o [i \in 1..Len(FileSeq) |-> sv[FileSeq[i]]]
    \o [i \in 1..Len(FileSeq) |-> l.cacheBefore[FileSeq[i]]]
    \o <<l.ret, l.value, l.servedBefore>>

\* the value v when the cells `order` are numbered 1, 2, ...
Move(order, v) ==
  IF v.t = "object" THEN Obj(CHOOSE i \in 1..Len(order) : order[i] = v.r) ELSE v

\* the next state: h, cache, rs, sv and l with the garbage collected
CommitHeap(h0, cache0, rs0, sv0, l0) ==
  \E h \in {h0}, cache \in {cache0}, rs \in {rs0}, sv \in {sv0}, l \in {l0} :
  \E order \in {Reach(h, <<>>, Roots(cache, rs, sv, l))} :
     /\ heap' = [i \in 1..Len(order) |->
                  [j \in 1..Len(h[order[i]]) |->
                    Entry(h[order[i]][j].k, Move(order, h[order[i]][j].v))]]
     /\ countryCache' = [f \in Files |-> Move(order, cache[f])]
     /\ recs' = [i \in 1..Len(rs) |-> [attributes |-> Move(order, rs[i].attributes)]]
     /\ literal' = Move(order, literal)
     /\ served' = [f \in Files |-> Move(order, sv[f])]
     /\ last' = [l EXCEPT !.ret = Move(order, @), !.value = Move(order, @),
                          !.servedBefore = Move(order, @),
                          !.cacheBefore = [f \in Files |-> Move(order, @[f])]]

\* the next state of a call that leaves the cities alone
Commit(h, cache, rs, sv, l) ==
  /\ CommitHeap(h, cache, rs, sv, l)
  /\ UNCHANGED <<cityFiles, cityCache, divisionFiles>>

(***************************************************************************)
(* CountryLoader.country and CountryLoader.countries.                      *)
(***************************************************************************)
\* the codes country() is called with
CallCodes == {US, us, shortlist}

\* the load done on every call, whatever the cache holds
loadWithoutCache(cache, h, src, id) ==
  LET file == IF src[id] = "absent" THEN [ok |-> FALSE, text |-> ""]
              ELSE [ok |-> TRUE, text |-> src[id]]
      parsed == IF file.text = Malformed THEN [ok |-> FALSE, h |-> h, v |-> Undefined]
                ELSE LET a == Allocate(h, Document(file.text))
                     IN [ok |-> TRUE, h |-> a.h, v |-> a.v]
  IN IF ~file.ok
       THEN [error |-> "CountryLoaderException", loaded |-> TRUE, h |-> h, cache |-> cache]
     ELSE IF ~parsed.ok
       THEN [error |-> "SyntaxError", loaded |-> TRUE, h |-> h, cache |-> cache]
     ELSE [error |-> "ok", loaded |-> TRUE, h |-> parsed.h,
           cache |-> [cache EXCEPT ![id] = parsed.v]]

\* the lookup-or-load that opens country() and countries(): the load is
\* skipped when the cached value is truthy, and the parsed value is stored
\* before anything looks at it
loadCached(cache, h, src, id) ==
  LET miss == ~Truthy(cache[id])
      file == getFile(src, id)
      parsed == JSON_parse(h, file.text)
  IN IF ~miss THEN [error |-> "ok", loaded |-> FALSE, h |-> h, cache |-> cache]
     ELSE IF ~file.ok
       THEN [error |-> "CountryLoaderException", loaded |-> TRUE, h |-> h, cache |-> cache]
     ELSE IF ~parsed.ok
       THEN [error |-> "SyntaxError", loaded |-> TRUE, h |-> h, cache |-> cache]
     ELSE [error |-> "ok", loaded |-> TRUE, h |-> parsed.h,
           cache |-> [cache EXCEPT ![id] = parsed.v]]

\* CountryLoader.country(c, hydrate); keep: the caller holds on to the
\* instance it is given
country(c, hydrate, keep) ==
  \E code \in {toLowerCase(c)} :
  \E l \in {loadCached(countryCache, heap, source, code)} :
  \E outcome \in {IF l.error # "ok" THEN l.error
                  ELSE IF hydrate THEN Country_constructor(l.h, l.cache[code]) ELSE "ok"} :
  LET data == l.cache[code]
      made == IF hydrate /\ outcome = "ok" /\ keep THEN 1 ELSE 0
  IN /\ l.h # heap => Len(heap) <= MaxHeap
     /\ Len(recs) + made <= MaxRecs
     /\ Commit(l.h, l.cache,
               IF made = 1 THEN Append(recs, [attributes |-> data]) ELSE recs,
               Serve(code, outcome, data),
               [NoCall EXCEPT !.op = "country", !.id = code, !.hydrate = hydrate,
                  !.outcome = outcome, !.ret = IF outcome = "ok" THEN data ELSE Undefined,
                  !.loaded = l.loaded, !.content = source[code],
                  !.cacheBefore = countryCache, !.servedBefore = served[code],
                  !.made = made])
     /\ UNCHANGED source

\* Object.values(list).map(country => new Country(country)): "ok", or the
\* first error thrown
hydrateAll(h, list) ==
  IF list.t # "object" THEN "TypeError"
  ELSE LET vs == Values(h, list)
           bad == {i \in 1..Len(vs) : Country_constructor(h, vs[i]) # "ok"}
       IN IF bad = {} THEN "ok"
          ELSE Country_constructor(h, vs[CHOOSE i \in bad : \A j \in bad : i <= j])

\* CountryLoader.countries(long, hydrate); keep: the caller holds on to the
\* instances it is given
countries(long, hydrate, keep) ==
  \E list \in {IF long THEN longlist ELSE shortlist} :
  \E l \in {loadCached(countryCache, heap, source, list)} :
  \E outcome \in {IF l.error # "ok" THEN l.error
                  ELSE IF hydrate THEN hydrateAll(l.h, l.cache[list]) ELSE "ok"} :
  LET data == l.cache[list]
      new == IF hydrate /\ outcome = "ok" /\ keep
             THEN [i \in 1..Len(l.h[data.r]) |-> [attributes |-> Values(l.h, data)[i]]]
             ELSE <<>>
  IN /\ l.h # heap => Len(heap) <= MaxHeap
     /\ Len(recs) + Len(new) <= MaxRecs
     /\ Commit(l.h, l.cache, recs \o new, Serve(list, outcome, data),
               [NoCall EXCEPT !.op = "countries", !.id = list, !.hydrate = hydrate,
                  !.outcome = outcome, !.ret = IF outcome = "ok" THEN data ELSE Undefined,
                  !.loaded = l.loaded, !.content = source[list],
                  !.cacheBefore = countryCache, !.servedBefore = served[list],
                  !.made = Len(new)])
     /\ UNCHANGED source

\* the test suite's fs.writeFileSync / fs.unlinkSync on a data file
writeFile(file, text) ==
  /\ text # source[file]
  /\ source' = [source EXCEPT ![file] = text]
  /\ Commit(heap, countryCache, recs, served,
            [NoCall EXCEPT !.op = "writeFile", !.id = file, !.content = text,
               !.cacheBefore = countryCache])

\* the test suite's invalidation: CountryLoader.countryCache = {}
resetCache ==
  /\ \E f \in Files : countryCache[f] # Undefined
  /\ Commit(heap, [f \in Files |-> Undefined], recs, [f \in Files |-> NotServed],
            [NoCall EXCEPT !.op = "resetCache"])
  /\ UNCHANGED source

(***************************************************************************)
(* Country.set and Country.setAttributes on the instances alive.           *)
(***************************************************************************)
\* the paths of the tree at v, each with the scalar it resolves to (an
\* object resolves to the mark Obj(0))
RECURSIVE Tree(_, _)
Tree(h, v) ==
  IF v.t # "object" THEN {<< <<>>, v >>}
  ELSE {<< <<>>, Obj(0) >>} \cup
       UNION {{<< <<h[v.r][i].k>> \o pv[1], pv[2] >> : pv \in Tree(h, h[v.r][i].v)} :
                i \in 1..Len(h[v.r])}

\* the keys the callers read with get()
QueryKeys ==
  {P(<<"geo", "region">>), <<"geo">>, <<"iso_3166_1_alpha2">>, <<"a">>, P(<<"a", "b">>)}

\* what get(q) returns on each instance, for each q: the value as a tree
Views(h, rs) ==
  [i \in 1..Len(rs) |->
    [q \in QueryKeys |-> Tree(h, Country_get(h, rs[i].attributes, q, Null))]]

\* recs[r].set(key, value); the record of the call keeps what get()
\* returned on every instance before it, and whether the attributes had
\* a top-level key spelled like the whole dotted key
set(r, key, value) ==
  \E s \in {setNestedProperty(heap, recs[r].attributes, key, value)} :
     /\ Len(heap) <= MaxHeap
     /\ Commit(s.h, countryCache, [recs EXCEPT ![r].attributes = s.v], served,
               [NoCall EXCEPT !.op = "set", !.r = r, !.key = key, !.value = value,
                  !.outcome = "ok", !.ret = s.v, !.cacheBefore = countryCache,
                  !.views = Views(heap, recs),
                  !.shadowed = Len(Split(key)) > 1 /\ HasOwn(heap, recs[r].attributes, key)])
     /\ UNCHANGED source

\* recs[r].setAttributes(attributes)
setAttributes(r, attributes) ==
  /\ Commit(heap, countryCache, [recs EXCEPT ![r].attributes = attributes], served,
            [NoCall EXCEPT !.op = "setAttributes", !.r = r, !.value = attributes,
               !.outcome = "ok", !.cacheBefore = countryCache])
  /\ UNCHANGED source

(***************************************************************************)
(* The loader: the data files change, the cache is filled, served and      *)
(* reset.  The callers drop the instances they are given.                  *)
(***************************************************************************)
Init ==
  /\ heap = <<>>
  /\ source = [f \in Files |-> IF f = us THEN "US" ELSE IF f = ca THEN "CA" ELSE "LIST"]
  /\ countryCache = [f \in Files |-> Undefined]
  /\ recs = <<>>
  /\ literal = Undefined
  /\ served = [f \in Files |-> NotServed]
  /\ cityFiles = NoCityFiles
  /\ cityCache = NoCityCache
  /\ divisionFiles = NoDivisionFiles
  /\ last = NoCall

Next ==
  \/ \E c \in CallCodes, hydrate \in BOOLEAN : country(c, hydrate, FALSE)
  \/ \E long \in BOOLEAN, hydrate \in BOOLEAN : countries(long, hydrate, FALSE)
  \/ \E f \in Files : \E text \in Contents(f) : writeFile(f, text)
  \/ resetCache

Spec == Init /\ [][Next]_vars

(***************************************************************************)
(* Claims about the cache of the loader.                                   *)
(***************************************************************************)
IsLoaderCall == last.op \in {"country", "countries"}

\* C1: once country() or countries() has succeeded for an identifier, every
\* later call for that identifier that returns, returns (or wraps) the data
\* the first one returned, whatever was written to the files in between,
\* until the cache is reset.
C1_LaterCallsReturnTheServedData ==
  (IsLoaderCall /\ last.outcome = "ok" /\ last.servedBefore # NotServed)
    => last.ret = last.servedBefore

\* C2: a country() call that finds no cached value for its code and whose
\* file is missing or malformed throws (CountryLoaderException when the
\* file is missing), leaves every cache entry as it was, with no value for
\* its code; and every call that finds no cached value invokes the loader,
\* so that the call after a failure loads again.
C2_FailedLoadIsNotCached ==
  (last.op = "country" /\ ~Truthy(last.cacheBefore[last.id]))
    => /\ last.loaded
       /\ last.content = "absent"
            => (last.outcome = "CountryLoaderException" /\ countryCache = last.cacheBefore)
       /\ last.content = Malformed
            => (last.outcome = "SyntaxError" /\ countryCache = last.cacheBefore)

\* C2's case: a load of a missing file has just failed, next to a populated
\* entry of another key
C2_Witness ==
  /\ last.op = "country" /\ last.content = "absent"
  /\ last.outcome = "CountryLoaderException"
  /\ countryCache[last.id] = Undefined
  /\ \E f \in Files : f # last.id /\ Truthy(countryCache[f])

\* C3: a load whose file parses to the empty record {} fails, with
\* hydrate and without, and stores nothing in the cache.
C3_EmptyRecordIsRejected ==
  (last.op = "country" /\ last.loaded /\ last.content = "{}")
    => (last.outcome # "ok" /\ ~Truthy(countryCache[last.id]))

(***************************************************************************)
(* The loader with callers that keep the instances they are given and      *)
(* write to them.  The data files are left alone.                          *)
(***************************************************************************)
\* the keys and values set() is called with
SetKeys == {P(<<"geo", "region">>), <<"iso_3166_1_alpha2">>}

SetValues == {Str(<<>>), W("Europe")}

NextMutation ==
  \/ \E hydrate \in BOOLEAN : country(US, hydrate, TRUE)
  \/ \E hydrate \in BOOLEAN : countries(FALSE, hydrate, TRUE)
  \/ \E r \in 1..Len(recs), key \in SetKeys, value \in SetValues : set(r, key, value)
  \/ \E r \in 1..Len(recs), q \in 1..Len(recs) : setAttributes(r, recs[q].attributes)

MutationSpec == Init /\ [][NextMutation]_vars

\* the tree a data file holds
FileTree(text) ==
  LET parsed == JSON_parse(<<>>, text) IN Tree(parsed.h, parsed.v)

\* C4: whatever was set on the instances hydrated from the cache, the data
\* country(code, false) and countries() return resolves every path to the
\* value it had when the entry was populated, which is the value in the
\* data file (no file is rewritten here).
C4_CachedEntryIsImmutable ==
  (IsLoaderCall /\ last.outcome = "ok" /\ ~last.hydrate)
    => Tree(heap, last.ret) = FileTree(source[last.id])

\* C5: set() on one instance never changes what get(q) returns on another
\* instance, for every q.
C5_SetLeavesOtherRecordsAlone ==
  last.op = "set"
    => \A i \in 1..Len(recs) : i # last.r => Views(heap, recs)[i] = last.views[i]

(***************************************************************************)
(* new Country(attributes) on the attribute trees a caller can write: the  *)
(* name a string or an object, each field absent, empty or filled, the     *)
(* native names under one language or two, the flat aliases.               *)
(***************************************************************************)
\* a field of a literal: absent, the empty string, or text
Opt == {"absent", "empty", "filled"}

OptEntry(k, o, text) ==
  CASE o = "absent" -> <<>>
    [] o = "empty"  -> <<E(k, Str(<<>>))>>
    [] o = "filled" -> <<E(k, text)>>

\* the shapes of the literal
TreeParams ==
  {p \in [name : {"absent", "string", "empty", "object"},
          common : Opt, official : Opt,
          native : {"absent", "one", "two"},
          nativeCommon : Opt, nativeOfficial : Opt,
          aliases : BOOLEAN,
          alpha2 : Opt, alpha3 : Opt] :
     /\ p.name # "object"
          => (p.common = "absent" /\ p.official = "absent" /\ p.native = "absent")
     /\ p.native = "absent"
          => (p.nativeCommon = "absent" /\ p.nativeOfficial = "absent")}

\* the literal of shape p: its cells (root first) and its value
BuildTree(p) ==
  LET root ==
        (CASE p.name = "absent" -> <<>>
           [] p.name = "string" -> <<E("name", W("Test Country"))>>
           [] p.name = "empty"  -> <<E("name", Str(<<>>))>>
           [] p.name = "object" -> <<E("name", Obj(2))>>)
        \o (IF p.aliases
            THEN <<E("official_name", W("Official Test Country")),
                   E("native_name", W("Native Test Country")),
                   E("native_official_name", W("Native Official Test Country"))>>
            ELSE <<>>)
        \o OptEntry("iso_3166_1_alpha2", p.alpha2, Str(<<"T", "C">>))
        \o OptEntry("iso_3166_1_alpha3", p.alpha3, Str(<<"T", "S", "T">>))
      name ==
        OptEntry("common", p.common, W("Test Country"))
        \o OptEntry("official", p.official, W("Official Test Country"))
        \o (IF p.native = "absent" THEN <<>> ELSE <<E("native", Obj(3))>>)
      native ==
        IF p.native = "one" THEN <<E("eng", Obj(4))>>
        ELSE <<E("spa", Obj(4)), E("eng", Obj(5))>>
      first ==
        OptEntry("common", p.nativeCommon, W("Native Test Country"))
        \o OptEntry("official", p.nativeOfficial, W("Native Official Test Country"))
      second ==
        <<E("common", W("Test Country")), E("official", W("Official Test Country"))>>
  IN [cells |-> <<root>>
                 \o (IF p.name = "object" THEN <<name>> ELSE <<>>)
                 \o (IF p.native # "absent" THEN <<native, first>> ELSE <<>>)
                 \o (IF p.native = "two" THEN <<second>> ELSE <<>>),
      v |-> Obj(1)]

\* new Country(literal); the caller keeps the instance, or drops it
newCountry(keep) ==
  /\ literal # Undefined
  /\ \E outcome \in {Country_constructor(heap, literal)} :
     \E made \in {IF keep /\ outcome = "ok" THEN 1 ELSE 0} :
       /\ Len(recs) + made <= MaxRecs
       /\ Commit(heap, countryCache,
                 IF made = 1 THEN Append(recs, [attributes |-> literal]) ELSE recs,
                 served,
                 [NoCall EXCEPT !.op = "new", !.outcome = outcome, !.value = literal,
                    !.made = made, !.cacheBefore = countryCache])
  /\ UNCHANGED source

\* a caller about to construct from a literal, the data files as shipped;
\* or no literal, and a us.json that holds the empty record
InitConstructor ==
  /\ \/ /\ \E p \in TreeParams :
             /\ heap = BuildTree(p).cells
             /\ literal = BuildTree(p).v
        /\ source = [f \in Files |-> IF f = us THEN "US" ELSE IF f = ca THEN "CA" ELSE "LIST"]
     \/ /\ heap = <<>>
        /\ literal = Undefined
        /\ source = [f \in Files |-> IF f = us THEN "{}" ELSE IF f = ca THEN "CA" ELSE "LIST"]
  /\ countryCache = [f \in Files |-> Undefined]
  /\ recs = <<>>
  /\ served = [f \in Files |-> NotServed]
  /\ cityFiles = NoCityFiles
  /\ cityCache = NoCityCache
  /\ divisionFiles = NoDivisionFiles
  /\ last = NoCall

NextConstructor ==
  \/ newCountry(FALSE)
  \/ country(US, TRUE, FALSE)
  \/ countries(FALSE, TRUE, FALSE)

ConstructorSpec == InitConstructor /\ [][NextConstructor]_vars

\* the value under the keys, from v down; undefined where the tree ends
RECURSIVE At(_, _, _)
At(h, v, keys) ==
  IF keys = <<>> THEN v
  ELSE IF v.t = "object" /\ HasKey(h[v.r], <<Head(keys)>>)
       THEN At(h, h[v.r][KeyIndex(h[v.r], <<Head(keys)>>)].v, Tail(keys))
       ELSE Undefined

\* a field that is there and not empty
Filled(v) == v.t \notin {"undefined", "null"} /\ v # Str(<<>>)

\* the six mandatory fields of the tree at v, read off the tree: the name
\* itself when it is a string and name.common otherwise; name.official or
\* the alias official_name; the common and official name of the first
\* native language or the aliases native_name and native_official_name;
\* the two codes
MandatoryFields(h, v) ==
  LET name == At(h, v, <<"name">>)
      native == At(h, v, <<"name", "native">>)
      firstLang == IF native.t = "object" /\ h[native.r] # <<>>
                   THEN h[native.r][1].v ELSE Undefined
  IN <<IF name.t = "string" THEN name ELSE At(h, v, <<"name", "common">>),
       IF Filled(At(h, v, <<"name", "official">>))
         THEN At(h, v, <<"name", "official">>) ELSE At(h, v, <<"official_name">>),
       IF Filled(At(h, firstLang, <<"common">>))
         THEN At(h, firstLang, <<"common">>) ELSE At(h, v, <<"native_name">>),
       IF Filled(At(h, firstLang, <<"official">>))
         THEN At(h, firstLang, <<"official">>) ELSE At(h, v, <<"native_official_name">>),
       At(h, v, <<"iso_3166_1_alpha2">>),
       At(h, v, <<"iso_3166_1_alpha3">>)>>

AllFilled(h, v) == \A i \in 1..6 : Filled(MandatoryFields(h, v)[i])

\* C7: new Country(attributes) throws 'Missing mandatory country
\* attributes!' when one of the six mandatory fields is missing or empty
\* and succeeds when all six are filled; and every Country that country()
\* or countries(hydrate = true) returns has all six filled.
C7_ConstructorValidatesMandatoryFields ==
  /\ last.op = "new"
       => /\ AllFilled(heap, last.value) => last.outcome = "ok"
          /\ ~AllFilled(heap, last.value)
               => last.outcome = "Missing mandatory country attributes!"
  /\ (last.op = "country" /\ last.hydrate /\ last.outcome = "ok")
       => AllFilled(heap, last.ret)
  /\ (last.op = "countries" /\ last.hydrate /\ last.outcome = "ok")
       => \A i \in 1..Len(heap[last.ret.r]) : AllFilled(heap, Values(heap, last.ret)[i])

\* C7's case: the constructor has refused a literal that has the names and
\* the codes and lacks a native name only
C7_Witness ==
  /\ last.op = "new"
  /\ last.outcome = "Missing mandatory country attributes!"
  /\ \A i \in {1, 2, 5, 6} : Filled(MandatoryFields(heap, last.value)[i])
  /\ ~Filled(MandatoryFields(heap, last.value)[3])

(***************************************************************************)
(* Records built from a caller's literal and written to with set() and     *)
(* setAttributes().  The literal is a valid country, with or without a     *)
(* field a, and with or without a top-level field whose key is the text    *)
(* "a.b".                                                                  *)
(***************************************************************************)
UserParams == [a : {"absent", "string", "object"}, dotted : BOOLEAN]

UserTree(q) ==
  [cells |->
     << <<E("name", W("Test Country")),
          E("official_name", W("Official Test Country")),
          E("native_name", W("Native Test Country")),
          E("native_official_name", W("Native Official Test Country")),
          E("iso_3166_1_alpha2", Str(<<"T", "C">>)),
          E("iso_3166_1_alpha3", Str(<<"T", "S", "T">>))>>
        \o (CASE q.a = "absent" -> <<>>
              [] q.a = "string" -> <<E("a", W("old"))>>
              [] q.a = "object" -> <<E("a", Obj(2))>>)
        \o (IF q.dotted THEN <<Entry(P(<<"a", "b">>), W("old"))>> ELSE <<>>) >>
     \o (IF q.a = "object" THEN << <<E("b", W("old"))>> >> ELSE <<>>),
   v |-> Obj(1)]

\* the keys and values set() is called with
RecordKeys == {P(<<"a", "b">>), <<"iso_3166_1_alpha2">>}

RecordValues == {Str(<<>>), Str(<<"x">>)}

InitRecord ==
  /\ \E q \in UserParams :
       /\ heap = UserTree(q).cells
       /\ literal = UserTree(q).v
  /\ source = [f \in Files |-> IF f = us THEN "US" ELSE IF f = ca THEN "CA" ELSE "LIST"]
  /\ countryCache = [f \in Files |-> Undefined]
  /\ recs = <<>>
  /\ served = [f \in Files |-> NotServed]
  /\ cityFiles = NoCityFiles
  /\ cityCache = NoCityCache
  /\ divisionFiles = NoDivisionFiles
  /\ last = NoCall

NextRecord ==
  \/ newCountry(TRUE)
  \/ \E r \in 1..Len(recs), key \in RecordKeys, value \in RecordValues : set(r, key, value)
  \/ \E r \in 1..Len(recs) :
       \E attributes \in {literal} \cup {recs[q].attributes : q \in 1..Len(recs)} :
         setAttributes(r, attributes)

RecordSpec == InitRecord /\ [][NextRecord]_vars

\* C6: after record.set(p, v), record.get(p) returns v, for every record,
\* every dot path p and every value v.
C6_SetGetRoundTrip ==
  last.op = "set"
    => Country_get(heap, recs[last.r].attributes, last.key, Null) = last.value

\* C8: every record alive has an alpha-2 code that is a string of length 2
\* and an alpha-3 code that is a string of length 3, whatever was set.
C8_CodesKeepTheirLength ==
  \A i \in 1..Len(recs) :
    /\ getIsoAlpha2(heap, recs[i].attributes).t = "string"
    /\ Len(getIsoAlpha2(heap, recs[i].attributes).s) = 2
    /\ getIsoAlpha3(heap, recs[i].attributes).t = "string"
    /\ Len(getIsoAlpha3(heap, recs[i].attributes).s) = 3

(***************************************************************************)
(* CountryCollection.where over a collection of two instances, the United  *)
(* States and the United Kingdom of the test data, the second one with or  *)
(* without its region, subregion, numeric code or English native name.     *)
(***************************************************************************)
\* some of the methods an instance inherits from Country.prototype
CountryMethods == {<<"get">>, <<"set">>, <<"getName">>, <<"getRegion">>, <<"getIsoNumeric">>}

\* the Country instance whose attributes are attrs, as a value to traverse
Instance(attrs) == [t |-> "instance", s |-> <<>>, r |-> attrs.r]

\* key in current, for a Country instance or an object of its tree
HasIn(h, current, key) ==
  IF current.t = "instance" THEN key = <<"attributes">> \/ key \in CountryMethods
  ELSE HasOwn(h, current, key)

\* current[key]
GetIn(h, current, key) ==
  IF current.t = "instance"
  THEN IF key = <<"attributes">> THEN Obj(current.r) ELSE Fn(key[1])
  ELSE Prop(h, current, key)

\* path.split('.').reduce(...) of getNestedProperty, from current
RECURSIVE reduceKeys(_, _, _)
reduceKeys(h, current, keys) ==
  IF keys = <<>> THEN current
  ELSE reduceKeys(h,
         IF Truthy(current) /\ current.t \in {"object", "instance"}
            /\ HasIn(h, current, Head(keys))
         THEN GetIn(h, current, Head(keys)) ELSE Undefined,
         Tail(keys))

\* a?.k
OptionalChain(h, a, k) ==
  IF a.t \in {"null", "undefined"} THEN Undefined ELSE Prop(h, a, <<k>>)

\* CountryCollection.getNestedProperty(obj, path), obj the instance whose
\* attributes are attrs
getNestedProperty(h, attrs, path) ==
  IF path = P(<<"geo", "region">>) THEN getRegion(h, attrs)
  ELSE IF path = P(<<"name", "native", "eng", "common">>)
       THEN OptionalChain(h, OptionalChain(h, getNativeNames(h, attrs), "eng"), "common")
  ELSE IF path = <<"iso_3166_1_numeric">> THEN getIsoNumeric(h, attrs)
  ELSE reduceKeys(h, Instance(attrs), Split(path))

\* the symbols of the strings compared, in the order of their code units
Alphabet ==
  <<"0", "2", "4", "6", "8", "9", "Americas", "English", "Europe", "North America",
    "Northern Europe", "United Kingdom", "United States", "[object Object]",
    "function">>

Rank(c) == CHOOSE i \in 1..Len(Alphabet) : Alphabet[i] = c

\* a before b in the lexicographic order of the code units: a is a proper
\* prefix of b, or the first symbol that differs is the smaller one
Lexicographic(a, b) ==
  \E k \in 0..Len(a) :
    /\ k <= Len(b)
    /\ \A j \in 1..k : a[j] = b[j]
    /\ \/ k = Len(a) /\ k < Len(b)
       \/ k < Len(a) /\ k < Len(b) /\ Rank(a[k + 1]) < Rank(b[k + 1])

\* a < b as numbers written in digits: the shorter one is the smaller
LessNumeric(a, b) ==
  IF Len(a) # Len(b) THEN Len(a) < Len(b) ELSE Lexicographic(a, b)

\* a < b for strings
RECURSIVE Less(_, _)
Less(a, b) ==
  IF b = <<>> THEN FALSE
  ELSE IF a = <<>> THEN TRUE
  ELSE IF Head(a) = Head(b) THEN Less(Tail(a), Tail(b))
  ELSE Rank(Head(a)) < Rank(Head(b))

\* v.toString(), for v neither null nor undefined
toString(v) ==
  CASE v.t = "string" -> v.s
    [] v.t = "function" -> <<"function">>
    [] OTHER -> <<"[object Object]">>

\* the callback with the default of CountryLoader.operatorForWhere, which
\* is equality
whereCallbackDefaultEqual(h, attrs, property, operator, value) ==
  LET propertyValue == getNestedProperty(h, attrs, property)
      strPropertyValue == toString(propertyValue)
      strCompareValue == toString(value)
      verdict ==
        CASE operator = W("==") -> propertyValue = value
          [] operator = W("!=") -> propertyValue # value
          [] operator = W(">")  -> Less(strCompareValue, strPropertyValue)
          [] operator = W("<")  -> Less(strPropertyValue, strCompareValue)
          [] operator = W(">=") -> ~Less(strPropertyValue, strCompareValue)
          [] operator = W("<=") -> ~Less(strCompareValue, strPropertyValue)
          [] OTHER -> propertyValue = value
  IN IF propertyValue = Undefined THEN "false"
     ELSE IF propertyValue = Null \/ value.t \in {"null", "undefined"} THEN "TypeError"
     ELSE IF verdict THEN "true" ELSE "false"

\* the callback of the filter on one instance: "true", "false", or the
\* "TypeError" of toString() on null or undefined
whereCallback(h, attrs, property, operator, value) ==
  LET propertyValue == getNestedProperty(h, attrs, property)
      strPropertyValue == toString(propertyValue)
      strCompareValue == toString(value)
      verdict ==
        CASE operator = W("==") -> propertyValue = value
          [] operator = W("!=") -> propertyValue # value
          [] operator = W(">")  -> Less(strCompareValue, strPropertyValue)
          [] operator = W("<")  -> Less(strPropertyValue, strCompareValue)
          [] operator = W(">=") -> ~Less(strPropertyValue, strCompareValue)
          [] operator = W("<=") -> ~Less(strCompareValue, strPropertyValue)
          [] OTHER -> FALSE
  IN IF propertyValue = Undefined THEN "false"
     ELSE IF propertyValue = Null \/ value.t \in {"null", "undefined"} THEN "TypeError"
     ELSE IF verdict THEN "true" ELSE "false"

\* the indices of is that satisfy keep, last first
RECURSIVE SelectIndicesReversed(_, _)
SelectIndicesReversed(is, keep) ==
  IF is = <<>> THEN <<>>
  ELSE SelectIndicesReversed(Tail(is), keep)
         \o (IF Head(is) \in keep THEN <<Head(is)>> ELSE <<>>)

\* the indices of is that satisfy keep, in order
RECURSIVE SelectIndices(_, _)
SelectIndices(is, keep) ==
  IF is = <<>> THEN <<>>
  ELSE (IF Head(is) \in keep THEN <<Head(is)>> ELSE <<>>) \o SelectIndices(Tail(is), keep)

\* new CountryCollection(recs).where(property, operator, value): the
\* instances it returns are recorded by their places in the collection
where(property, operator0, value0) ==
  \E value \in {IF value0 = Undefined THEN operator0 ELSE value0} :
  \E operator \in {IF value0 = Undefined THEN W("==") ELSE operator0} :
  \E verdicts \in {[i \in 1..Len(recs) |->
                     whereCallback(heap, recs[i].attributes, property, operator, value)]} :
  \E thrown \in {\E i \in 1..Len(recs) : verdicts[i] = "TypeError"} :
    /\ Commit(heap, countryCache, recs, served,
              [NoCall EXCEPT !.op = "where", !.key = property, !.operator = operator,
                 !.value = value, !.cacheBefore = countryCache,
                 !.outcome = IF thrown THEN "TypeError" ELSE "ok",
                 !.result = IF thrown THEN <<>>
                            ELSE SelectIndices([i \in 1..Len(recs) |-> i],
                                               {i \in 1..Len(recs) : verdicts[i] = "true"})])
    /\ UNCHANGED source

\* the fields the second country may lack
Optional == {"region", "subregion", "numeric", "eng"}

\* the tree of a country of the test data: root, name, native, first
\* native language, languages, geo
CountryTree(common, a2, a3, numeric, region, subregion, lacking) ==
  [cells |-> <<
     <<E("name", Obj(2)), E("iso_3166_1_alpha2", Str(a2)), E("iso_3166_1_alpha3", Str(a3))>>
       \o (IF "numeric" \in lacking THEN <<>> ELSE <<E("iso_3166_1_numeric", Str(numeric))>>)
       \o <<E("languages", Obj(5)), E("geo", Obj(6))>>,
     <<E("common", W(common)), E("official", W(common)), E("native", Obj(3))>>,
     <<E(IF "eng" \in lacking THEN "cym" ELSE "eng", Obj(4))>>,
     <<E("common", W(common)), E("official", W(common))>>,
     <<E("eng", W("English"))>>,
     (IF "region" \in lacking THEN <<>> ELSE <<E("region", W(region))>>)
       \o (IF "subregion" \in lacking THEN <<>> ELSE <<E("subregion", W(subregion))>>) >>,
   v |-> Obj(1)]

\* the numeric codes of the second country: the one of the test data, and
\* a one-digit code
NumericCodes == {<<"8", "2", "6">>, <<"9">>}

InitWhere ==
  /\ \E lacking \in {{}} \cup {{o} : o \in Optional}, numeric \in NumericCodes :
       LET usa == Allocate(<<>>, CountryTree("United States", US, USA, <<"8", "4", "0">>,
                                             "Americas", "North America", {}))
           gbr == Allocate(usa.h, CountryTree("United Kingdom", <<"G", "B">>,
                                              <<"G", "B", "R">>, numeric,
                                              "Europe", "Northern Europe", lacking))
       IN /\ lacking # {} => numeric = <<"8", "2", "6">>
          /\ heap = gbr.h
          /\ recs = <<[attributes |-> usa.v], [attributes |-> gbr.v]>>
          /\ \A i \in 1..2 : Country_constructor(heap, recs[i].attributes) = "ok"
  /\ source = [f \in Files |-> IF f = us THEN "US" ELSE IF f = ca THEN "CA" ELSE "LIST"]
  /\ countryCache = [f \in Files |-> Undefined]
  /\ literal = Undefined
  /\ served = [f \in Files |-> NotServed]
  /\ cityFiles = NoCityFiles
  /\ cityCache = NoCityCache
  /\ divisionFiles = NoDivisionFiles
  /\ last = NoCall

\* the paths into the attribute tree that where() is called with
AttributePaths ==
  {P(<<"geo", "region">>), P(<<"geo", "subregion">>), <<"iso_3166_1_numeric">>,
   P(<<"name", "native", "eng", "common">>)}

WherePaths == AttributePaths \cup {P(<<"attributes", "geo", "subregion">>)}

Operators == {W("=="), W("!="), W("<"), W(">"), W("<="), W(">=")}

WhereValues ==
  {W("Europe"), W("North America"), Str(<<"8", "0", "0">>), Str(<<"8", "4", "0">>)}

NextWhere ==
  \/ \E property \in WherePaths, operator \in Operators, value \in WhereValues :
       where(property, operator, value)
  \/ \E property \in WherePaths, value \in WhereValues :
       where(property, value, Undefined)

WhereSpec == InitWhere /\ [][NextWhere]_vars

\* the value the attribute tree at v holds under the dot path
Resolve(h, v, path) ==
  LET segs == Split(path) IN At(h, v, [i \in 1..Len(segs) |-> segs[i][1]])

\* C9: where(path, operator, value) returns a result, and the result has
\* no record whose path resolves to nothing, for every operator and path.
C9_WhereExcludesAbsent ==
  (last.op = "where" /\ last.key \in AttributePaths)
    => /\ last.outcome = "ok"
       /\ \A j \in 1..Len(last.result) :
            Resolve(heap, recs[last.result[j]].attributes, last.key) # Undefined

\* C10: a where(p, v) or where(p, '!=', v) that returns, returns exactly
\* the records whose tree resolves p to v, respectively to a value that is
\* there and is not v, in the order of the collection.
C10_WhereSelectsByAttributePath ==
  (last.op = "where" /\ last.key \in AttributePaths /\ last.outcome = "ok")
    => /\ last.operator = W("==")
            => last.result =
                 SelectIndices([i \in 1..Len(recs) |-> i],
                   {i \in 1..Len(recs) :
                      Resolve(heap, recs[i].attributes, last.key) = last.value})
       /\ last.operator = W("!=")
            => last.result =
                 SelectIndices([i \in 1..Len(recs) |-> i],
                   {i \in 1..Len(recs) :
                      /\ Resolve(heap, recs[i].attributes, last.key) # Undefined
                      /\ Resolve(heap, recs[i].attributes, last.key) # last.value})

\* the operators that compare the textual representations
Ordering == {W("<"), W(">"), W("<="), W(">=")}

\* a op b in the lexicographic order
Compares(operator, a, b) ==
  CASE operator = W("<")  -> Lexicographic(a, b)
    [] operator = W(">")  -> Lexicographic(b, a)
    [] operator = W("<=") -> Lexicographic(a, b) \/ a = b
    [] operator = W(">=") -> Lexicographic(b, a) \/ a = b

TypeofObject(v) == v.t \in {"object", "null"}

\* Array.isArray(v)
IsArray(h, v) == v.t = "object" /\ HasKey(h[v.r], <<"length">>)

\* the elements of the array v, in order
Items(h, v) ==
  LET elems == SelectSeq(h[v.r], LAMBDA e : e.k # <<"length">>)
  IN [i \in 1..Len(elems) |-> elems[i].v]

\* the result of a call that may throw: the error, the value, the heap
Returned(v, h) == [error |-> "ok", v |-> v, h |-> h]

Thrown(error, h) == [error |-> error, v |-> Undefined, h |-> h]

\* CountryLoader.collapse(array): for...of throws on what is not iterable;
\* the elements that are arrays are concatenated into a new array
collapse(h, array) ==
  IF ~IsArray(h, array) THEN Thrown("TypeError", h)
  ELSE LET items == Items(h, array)
           inner == [i \in 1..Len(items) |->
                      IF IsArray(h, items[i]) THEN Items(h, items[i]) ELSE <<>>]
           flat[i \in 0..Len(items)] == IF i = 0 THEN <<>> ELSE flat[i - 1] \o inner[i]
           all == flat[Len(items)]
           digits == <<"0", "1", "2", "3", "4", "5", "6", "7", "8", "9">>
       IN Returned(Obj(Len(h) + 1),
                   Append(h, [i \in 1..Len(all) |-> E(digits[i], all[i])]
                               \o <<E("length", Num(Len(all)))>>))

\* CountryLoader.get(target, segments) from the segment at index i on, and
\* CountryLoader.pluck(array, value): results is an object, so that the
\* push on it is a TypeError
RECURSIVE getFrom(_, _, _, _, _)
RECURSIVE pluck(_, _, _)
getFrom(h, current, segments, i, defaultValue) ==
  IF i > Len(segments) THEN Returned(current, h)
  ELSE IF segments[i] = <<"*">>
    THEN IF ~TypeofObject(current) THEN Returned(defaultValue, h)
         ELSE LET result == pluck(h, current, SubSeq(segments, i + 1, Len(segments)))
              IN IF result.error # "ok" THEN result ELSE collapse(result.h, result.v)
  ELSE IF TypeofObject(current)
    THEN IF current.t = "null" THEN Thrown("TypeError", h)
         ELSE IF HasOwn(h, current, segments[i])
           THEN getFrom(h, Prop(h, current, segments[i]), segments, i + 1, defaultValue)
           ELSE Returned(defaultValue, h)
  ELSE Returned(defaultValue, h)

pluck(h, array, valuePath) ==
  LET results == Len(h) + 1
      h1 == Append(h, <<>>)
  IN IF ~IsArray(h, array) THEN Thrown("TypeError", h1)
     ELSE IF Items(h, array) = <<>> THEN Returned(Obj(results), h1)
     ELSE LET itemValue == getFrom(h1, Items(h, array)[1], valuePath, 1, Null)
          IN IF itemValue.error # "ok" THEN itemValue ELSE Thrown("TypeError", h1)

\* CountryLoader.get without its test for a null key
getWithoutNullCheck(h, target, key, defaultValue) ==
  getFrom(h, target, Split(key.s), 1, defaultValue)

\* CountryLoader.get(target, key, defaultValue), key null or a string
CountryLoader_get(h, target, key, defaultValue) ==
  IF key = Null THEN Returned(target, h)
  ELSE getFrom(h, target, Split(key.s), 1, defaultValue)

(***************************************************************************)
(* CountryLoader.where over the long list.                                 *)
(***************************************************************************)
\* the number a string of digits denotes
RECURSIVE NumberOf(_)
NumberOf(s) ==
  IF s = <<>> THEN 0
  ELSE 10 * NumberOf(SubSeq(s, 1, Len(s) - 1))
         + (CHOOSE i \in 1..Len(Digits) : Digits[i] = s[Len(s)]) - 1

\* ToPrimitive: an object becomes its toString()
ToPrimitive(v) == IF v.t = "object" THEN W("[object Object]") ELSE v

\* ToNumber: null is 0, a string of digits its number, the empty string 0,
\* anything else NaN
ToNumber(v) ==
  CASE v.t = "null" -> [nan |-> FALSE, n |-> 0]
    [] v.t = "number" -> [nan |-> FALSE, n |-> v.r]
    [] v.t = "string" /\ (\A i \in 1..Len(v.s) : IsDigit(v.s[i]))
         -> [nan |-> FALSE, n |-> NumberOf(v.s)]
    [] OTHER -> [nan |-> TRUE, n |-> 0]

\* a < b: two strings are compared as strings, anything else as numbers
JsLess(a0, b0) ==
  LET a == ToPrimitive(a0)
      b == ToPrimitive(b0)
  IN IF a.t = "string" /\ b.t = "string" THEN Less(a.s, b.s)
     ELSE ~ToNumber(a).nan /\ ~ToNumber(b).nan /\ ToNumber(a).n < ToNumber(b).n

\* a <= b
JsLessOrEqual(a0, b0) ==
  LET a == ToPrimitive(a0)
      b == ToPrimitive(b0)
  IN IF a.t = "string" /\ b.t = "string" THEN ~Less(b.s, a.s)
     ELSE ~ToNumber(a).nan /\ ~ToNumber(b).nan /\ ToNumber(a).n <= ToNumber(b).n

\* the callback operatorForWhere(key, operator, value) on item: "true",
\* "false", or the error get() throws
operatorForWhere(h, item, key, operator, value) ==
  LET got == CountryLoader_get(h, item, Str(key), Null)
      retrieved == got.v
      verdict ==
        CASE operator \in {W("="), W("=="), W("===")} -> retrieved = value
          [] operator \in {W("!="), W("<>"), W("!==")} -> retrieved # value
          [] operator = W("<")  -> JsLess(retrieved, value)
          [] operator = W(">")  -> JsLess(value, retrieved)
          [] operator = W("<=") -> JsLessOrEqual(retrieved, value)
          [] operator = W(">=") -> JsLessOrEqual(value, retrieved)
          [] OTHER -> retrieved = value
  IN IF got.error # "ok" THEN got.error
     ELSE IF verdict THEN "true" ELSE "false"

\* CountryLoader.where(key, operator, value), called with `arguments`
\* arguments (2 or 3); the entries of the object it returns are recorded by
\* their places in the long list
loaderWhere(key, operator0, value0, arguments) ==
  \E value \in {IF arguments = 2 THEN operator0 ELSE value0} :
  \E operator \in {IF arguments = 2 THEN W("=") ELSE operator0} :
  \E l \in {loadCached(countryCache, heap, source, longlist)} :
  \E items \in {IF l.error = "ok" /\ l.cache[longlist].t = "object"
                THEN Values(l.h, l.cache[longlist]) ELSE <<>>} :
  \E verdicts \in {[i \in 1..Len(items) |->
                     operatorForWhere(l.h, items[i], key, operator, value)]} :
  \E outcome \in {IF l.error # "ok" THEN l.error
                  ELSE IF l.cache[longlist].t # "object" THEN "TypeError"
                  ELSE IF \E i \in 1..Len(items) : verdicts[i] \notin {"true", "false"}
                    THEN "TypeError"
                  ELSE "ok"} :
    /\ l.h # heap => Len(heap) <= MaxHeap
    /\ Commit(l.h, l.cache, recs, served,
              [NoCall EXCEPT !.op = "loaderWhere", !.id = longlist, !.key = key,
                 !.operator = operator, !.value = value, !.outcome = outcome,
                 !.loaded = l.loaded, !.content = source[longlist],
                 !.cacheBefore = countryCache,
                 !.ret = IF outcome = "ok" THEN l.cache[longlist] ELSE Undefined,
                 !.result = IF outcome # "ok" THEN <<>>
                            ELSE SelectIndices([i \in 1..Len(items) |-> i],
                                   {i \in 1..Len(items) : verdicts[i] = "true"})])
    /\ UNCHANGED source

\* the long list as shipped, or with a country that has no numeric code
InitLoaderWhere ==
  /\ heap = <<>>
  /\ \E text \in {"LIST", "LIST sparse"} :
       source = [f \in Files |-> IF f = us THEN "US" ELSE IF f = longlist THEN text ELSE IF f = ca THEN "CA" ELSE "LIST"]
  /\ countryCache = [f \in Files |-> Undefined]
  /\ recs = <<>>
  /\ literal = Undefined
  /\ served = [f \in Files |-> NotServed]
  /\ cityFiles = NoCityFiles
  /\ cityCache = NoCityCache
  /\ divisionFiles = NoDivisionFiles
  /\ last = NoCall

LoaderKeys == {<<"iso_3166_1_numeric">>, <<"name">>, P(<<"geo", "region">>)}

LoaderOperators == Operators \cup {W("=")}

LoaderValues == {Str(<<"8", "0", "0">>), Str(<<"8", "4", "0">>), W("United Kingdom")}

NextLoaderWhere ==
  \/ \E key \in LoaderKeys, operator \in LoaderOperators, value \in LoaderValues :
       loaderWhere(key, operator, value, 3)
  \/ \E key \in LoaderKeys, value \in LoaderValues :
       loaderWhere(key, value, Undefined, 2)
  \/ resetCache

LoaderWhereSpec == InitLoaderWhere /\ [][NextLoaderWhere]_vars

\* C13: CountryLoader.where returns no record whose key resolves to
\* nothing, for each of ==, !=, <, >, <=, >=; and where(key, value) returns
\* the records whose key resolves to value.
C13_LoaderWhereExcludesAbsent ==
  (last.op = "loaderWhere" /\ last.outcome = "ok")
    => /\ \A j \in 1..Len(last.result) :
            Resolve(heap, Values(heap, last.ret)[last.result[j]], last.key) # Undefined
       /\ last.operator = W("=")
            => last.result =
                 SelectIndices([i \in 1..Len(heap[last.ret.r]) |-> i],
                   {i \in 1..Len(heap[last.ret.r]) :
                      Resolve(heap, Values(heap, last.ret)[i], last.key) = last.value})

(***************************************************************************)
(* The two getters called on a target: a country whose field x is absent,  *)
(* null, a string or an object (with y absent, null or a string), or an    *)
(* array of N records that each have x.y.                                  *)
(***************************************************************************)
GetParams ==
  {q \in [x : {"absent", "null", "string", "object"}, y : {"absent", "null", "string"}] :
     q.x # "object" => q.y = "absent"}

GetTree(q) ==
  [cells |->
     << <<E("name", W("Test Country")),
          E("official_name", W("Official Test Country")),
          E("native_name", W("Native Test Country")),
          E("native_official_name", W("Native Official Test Country")),
          E("iso_3166_1_alpha2", Str(<<"T", "C">>)),
          E("iso_3166_1_alpha3", Str(<<"T", "S", "T">>))>>
        \o (CASE q.x = "absent" -> <<>>
              [] q.x = "null"   -> <<E("x", Null)>>
              [] q.x = "string" -> <<E("x", W("scalar"))>>
              [] q.x = "object" -> <<E("x", Obj(2))>>) >>
     \o (IF q.x = "object"
         THEN << (CASE q.y = "absent" -> <<>>
                    [] q.y = "null"   -> <<E("y", Null)>>
                    [] q.y = "string" -> <<E("y", W("stored"))>>) >>
         ELSE <<>>),
   v |-> Obj(1)]

\* the largest array the getters are given
MaxItems == 2

\* the array of n records {x: {y: ...}}: the array, then for each record
\* the record and its x
GetArray(n) ==
  [cells |->
     << [i \in 1..n |-> E(Digits[i], Obj(2 * i))] \o <<E("length", Num(n))>> >>
     \o [j \in 1..(2 * n) |->
           IF j % 2 = 1 THEN <<E("x", Obj(j + 2))>>
           ELSE <<E("y", W(IF j = 2 THEN "first" ELSE "second"))>>],
   v |-> Obj(1)]

\* CountryLoader.get(literal, key, defaultValue)
loaderGet(key, defaultValue) ==
  \E got \in {CountryLoader_get(heap, literal, key, defaultValue)} :
    /\ Commit(got.h, countryCache, recs, served,
              [NoCall EXCEPT !.op = "loaderGet", !.keyIsNull = (key = Null),
                 !.key = IF key = Null THEN <<>> ELSE key.s,
                 !.value = defaultValue, !.outcome = got.error, !.ret = got.v,
                 !.cacheBefore = countryCache])
    /\ UNCHANGED source

\* recs[r].get(key, defaultValue)
countryGet(r, key, defaultValue) ==
  /\ Commit(heap, countryCache, recs, served,
            [NoCall EXCEPT !.op = "countryGet", !.r = r, !.keyIsNull = (key = Null),
               !.key = IF key = Null THEN <<>> ELSE key.s,
               !.value = defaultValue, !.outcome = "ok",
               !.ret = IF key = Null THEN recs[r].attributes
                       ELSE Country_get(heap, recs[r].attributes, key.s, defaultValue),
               !.cacheBefore = countryCache])
  /\ UNCHANGED source

InitGet ==
  /\ \/ \E q \in GetParams :
          /\ heap = GetTree(q).cells
          /\ literal = GetTree(q).v
          /\ recs = <<[attributes |-> literal]>>
          /\ Country_constructor(heap, literal) = "ok"
     \/ \E n \in 0..MaxItems :
          /\ heap = GetArray(n).cells
          /\ literal = GetArray(n).v
          /\ recs = <<>>
  /\ source = [f \in Files |-> IF f = us THEN "US" ELSE IF f = ca THEN "CA" ELSE "LIST"]
  /\ countryCache = [f \in Files |-> Undefined]
  /\ served = [f \in Files |-> NotServed]
  /\ cityFiles = NoCityFiles
  /\ cityCache = NoCityCache
  /\ divisionFiles = NoDivisionFiles
  /\ last = NoCall

\* the keys and defaults the getters are called with
GetKeys ==
  {Null, Str(<<>>), Str(<<"x">>), Str(P(<<"x", "y">>)), Str(P(<<"x", "y", "z">>)),
   Str(P(<<"*", "x", "y">>)), Str(<<"name">>)}

GetDefaults == {Null, W("default")}

NextGet ==
  \/ \E key \in GetKeys, defaultValue \in GetDefaults : loaderGet(key, defaultValue)
  \/ \E r \in 1..Len(recs), key \in GetKeys, defaultValue \in GetDefaults :
       countryGet(r, key, defaultValue)

GetSpec == InitGet /\ [][NextGet]_vars

\* the target of the last get
Target == IF last.op = "countryGet" THEN recs[last.r].attributes ELSE literal

IsGet == last.op \in {"loaderGet", "countryGet"}

\* C14: CountryLoader.get(seq, '*.x.y') on an array of N records that each
\* have x.y returns an array of length N with the records' x.y, in order.
C14_WildcardCollectsInOrder ==
  (last.op = "loaderGet" /\ last.key = P(<<"*", "x", "y">>) /\ IsArray(heap, literal))
    => /\ last.outcome = "ok"
       /\ IsArray(heap, last.ret)
       /\ Items(heap, last.ret) =
            [i \in 1..Len(Items(heap, literal)) |->
               Resolve(heap, Items(heap, literal)[i], P(<<"x", "y">>))]

\* what the tree at v holds under the segments: nothing when a segment is
\* absent or the value reached is not an object
RECURSIVE Walk(_, _, _)
Walk(h, v, segs) ==
  IF segs = <<>> THEN [found |-> TRUE, v |-> v]
  ELSE IF v.t = "object" /\ HasKey(h[v.r], Head(segs))
       THEN Walk(h, h[v.r][KeyIndex(h[v.r], Head(segs))].v, Tail(segs))
       ELSE [found |-> FALSE, v |-> Undefined]

\* C15: a get with a path (no wildcard) returns the default when a segment
\* is absent or the value reached is not traversable, and the stored value
\* otherwise (for a stored null, null or the default).
C15_GetReturnsDefaultOrStored ==
  (IsGet /\ ~last.keyIsNull /\ last.key # <<>> /\ last.key # P(<<"*", "x", "y">>)
     /\ ~IsArray(heap, Target))
    => LET w == Walk(heap, Target, Split(last.key))
       IN /\ last.outcome = "ok"
          /\ ~w.found => last.ret = last.value
          /\ (w.found /\ w.v # Null) => last.ret = w.v
          /\ (w.found /\ w.v = Null) => last.ret \in {Null, last.value}

\* C16: a get with an empty path, null or the empty string, returns the
\* target as it is.
C16_EmptyPathReturnsRoot ==
  (IsGet /\ (last.keyIsNull \/ last.key = <<>>))
    => (last.outcome = "ok" /\ last.ret = Target)

\* C16, as the code has it: a get whose key is null returns the target as
\* it is; a get whose key is the empty string looks for a property named
\* by the empty string, and returns the default when there is none.
C16_NullKeyReturnsRoot ==
  IsGet
    => /\ last.keyIsNull => (last.outcome = "ok" /\ last.ret = Target)
       /\ (~last.keyIsNull /\ last.key = <<>> /\ ~HasOwn(heap, Target, <<>>))
            => (last.outcome = "ok" /\ last.ret = last.value)

\* C16's case: CountryLoader.get with a null key and a default that is not
\* null has returned its target
C16_Witness ==
  /\ last.op = "loaderGet" /\ last.keyIsNull
  /\ last.value = W("default")
  /\ last.outcome = "ok" /\ last.ret = literal

(***************************************************************************)
(* CityLoader.findNearest and findWithinRadius.  The cities and the query  *)
(* points lie on one meridian, where the haversine distance is the         *)
(* difference of the latitudes; distances and radii are counted in degrees *)
(* of arc (one degree is 6371 * pi / 180 km).                              *)
(***************************************************************************)
\* the largest number of cities in a table
MaxCities == 3

\* the latitudes of the cities and of the query points, and the radii
Latitudes == 0..3

Radii == 0..2

\* the attributes of a city: geo.latitude and geo.longitude
CityData(latitude) == [latitude |-> latitude, longitude |-> 0]

Abs(n) == IF n < 0 THEN 0 - n ELSE n

\* City.haversineDistance, for lon1 = lon2
haversineDistance(lat1, lon1, lat2, lon2) == Abs(lat2 - lat1)

\* City.distanceToCoordinates(lat, lon)
distanceToCoordinates(city, lat, lon) ==
  haversineDistance(city.latitude, city.longitude, lat, lon)

\* CityLoader.loadForCountry(countryCode): the cities, and the cache after
loadForCountry(cache, files, countryCode) ==
  LET code == toLowerCase(countryCode)
  IN IF cache[code].has THEN [cities |-> cache[code].cities, cache |-> cache]
     ELSE [cities |-> files[code],
           cache |-> [cache EXCEPT ![code] = [has |-> TRUE, cities |-> files[code]]]]

\* the loop of findNearest and the test that follows it: the place in the
\* table of the city returned, 0 for null
nearestOf(cities, latitude, longitude, maxDistanceKm) ==
  LET scan[i \in 0..Len(cities)] ==
        IF i = 0 THEN [nearestCity |-> 0, nearestDistance |-> 0, infinite |-> TRUE]
        ELSE LET distance == distanceToCoordinates(cities[i], latitude, longitude)
             IN IF scan[i - 1].infinite \/ distance < scan[i - 1].nearestDistance
                THEN [nearestCity |-> i, nearestDistance |-> distance, infinite |-> FALSE]
                ELSE scan[i - 1]
      found == scan[Len(cities)]
  IN IF Truthy(maxDistanceKm)
          /\ (found.infinite \/ found.nearestDistance > maxDistanceKm.r)
     THEN 0 ELSE found.nearestCity

\* distance < radiusKm
withinRadiusExclusive(distance, radiusKm) == distance < radiusKm

\* distance <= radiusKm
withinRadius(distance, radiusKm) == distance <= radiusKm

\* a sort by distance that puts the later of two equals first
RECURSIVE sortTiesReversed(_)
sortTiesReversed(results) ==
  IF results = <<>> THEN <<>>
  ELSE LET sorted == sortTiesReversed(SubSeq(results, 1, Len(results) - 1))
           x == results[Len(results)]
           before == SelectSeq(sorted, LAMBDA e : e.distance < x.distance)
           after == SelectSeq(sorted, LAMBDA e : e.distance >= x.distance)
       IN before \o <<x>> \o after

\* Array.prototype.sort((a, b) => a.distance - b.distance), which is stable
RECURSIVE sortByDistance(_)
sortByDistance(results) ==
  IF results = <<>> THEN <<>>
  ELSE LET sorted == sortByDistance(SubSeq(results, 1, Len(results) - 1))
           x == results[Len(results)]
           before == SelectSeq(sorted, LAMBDA e : e.distance <= x.distance)
           after == SelectSeq(sorted, LAMBDA e : e.distance > x.distance)
       IN before \o <<x>> \o after

\* the body of findWithinRadius: the cities by their places in the table,
\* each with its distance
withinRadiusOf(cities, latitude, longitude, radiusKm) ==
  LET all == [i \in 1..Len(cities) |->
               [city |-> i, distance |-> distanceToCoordinates(cities[i], latitude, longitude)]]
  IN sortByDistance(SelectSeq(all, LAMBDA e : withinRadius(e.distance, radiusKm)))

\* CityLoader.findNearest(countryCode, latitude, longitude, maxDistanceKm)
findNearest(countryCode, latitude, longitude, maxDistanceKm) ==
  \E l \in {loadForCountry(cityCache, cityFiles, countryCode)} :
  \E city \in {nearestOf(l.cities, latitude, longitude, maxDistanceKm)} :
    /\ cityCache' = l.cache
    /\ last' = [NoCall EXCEPT !.op = "findNearest", !.id = toLowerCase(countryCode),
                  !.latitude = latitude, !.longitude = longitude,
                  !.value = maxDistanceKm, !.outcome = "ok",
                  !.result = IF city = 0 THEN <<>> ELSE <<city>>]
    /\ UNCHANGED <<heap, source, countryCache, recs, literal, cityFiles, divisionFiles, served>>

\* CityLoader.findWithinRadius(countryCode, latitude, longitude, radiusKm)
findWithinRadius(countryCode, latitude, longitude, radiusKm) ==
  \E l \in {loadForCountry(cityCache, cityFiles, countryCode)} :
  \E results \in {withinRadiusOf(l.cities, latitude, longitude, radiusKm)} :
    /\ cityCache' = l.cache
    /\ last' = [NoCall EXCEPT !.op = "findWithinRadius", !.id = toLowerCase(countryCode),
                  !.latitude = latitude, !.longitude = longitude,
                  !.value = Num(radiusKm), !.outcome = "ok",
                  !.result = [i \in 1..Len(results) |-> results[i].city]]
    /\ UNCHANGED <<heap, source, countryCache, recs, literal, cityFiles, divisionFiles, served>>

\* a table of cities on disk, nothing loaded
InitCity ==
  /\ heap = <<>>
  /\ source = [f \in Files |-> IF f = us THEN "US" ELSE IF f = ca THEN "CA" ELSE "LIST"]
  /\ countryCache = [f \in Files |-> Undefined]
  /\ recs = <<>>
  /\ literal = Undefined
  /\ \E n \in 0..MaxCities : \E table \in [1..n -> Latitudes] :
       cityFiles = [c \in CityCodes |->
                     IF c = us THEN [i \in 1..n |-> CityData(table[i])] ELSE <<>>]
  /\ cityCache = NoCityCache
  /\ divisionFiles = NoDivisionFiles
  /\ served = [f \in Files |-> NotServed]
  /\ last = NoCall

NextCity ==
  \/ \E latitude \in Latitudes, maxDistanceKm \in {Undefined} \cup {Num(r) : r \in Radii} :
       findNearest(US, latitude, 0, maxDistanceKm)
  \/ \E latitude \in Latitudes, radiusKm \in Radii :
       findWithinRadius(US, latitude, 0, radiusKm)

CitySpec == InitCity /\ [][NextCity]_vars

\* the distance of the city at place i of the table of the last call to
\* the point of the last call
DistanceOf(i) ==
  Abs(cityCache[last.id].cities[i].latitude - last.latitude)

Places == 1..Len(cityCache[last.id].cities)

\* C17: findNearest returns a city of minimum distance; given a maximum
\* (any value >= 0) it returns a city no farther than the maximum, or none;
\* without a maximum it returns a city unless the table is empty.
C17_NearestWithinMaximum ==
  last.op = "findNearest"
    => /\ \A j \in 1..Len(last.result) :
            \A i \in Places : DistanceOf(last.result[j]) <= DistanceOf(i)
       /\ last.value # Undefined
            => \A j \in 1..Len(last.result) : DistanceOf(last.result[j]) <= last.value.r
       /\ (last.value = Undefined /\ Places # {}) => last.result # <<>>

\* C18: findWithinRadius returns the cities of the table whose distance is
\* at most the radius, each once, in ascending order of distance.
C18_WithinRadiusExactAndSorted ==
  last.op = "findWithinRadius"
    => /\ {last.result[j] : j \in 1..Len(last.result)}
            = {i \in Places : DistanceOf(i) <= last.value.r}
       /\ \A j, k \in 1..Len(last.result) :
            j < k => /\ last.result[j] # last.result[k]
                     /\ DistanceOf(last.result[j]) <= DistanceOf(last.result[k])

\* C18's case: a call has returned two cities in the reverse of their
\* order in the table, the farther one at the radius exactly, and has left
\* out a third
C18_Witness ==
  /\ last.op = "findWithinRadius"
  /\ Len(last.result) = 2 /\ Len(cityCache[last.id].cities) = 3
  /\ last.result[1] > last.result[2]
  /\ DistanceOf(last.result[1]) < DistanceOf(last.result[2])
  /\ DistanceOf(last.result[2]) = last.value.r

\* C19: a larger radius never loses a city: what findWithinRadius returned
\* it returns for every larger radius, and if findNearest found a city
\* within a maximum it finds one within every larger maximum.
C19_LargerRadiusKeepsCities ==
  /\ last.op = "findWithinRadius"
       => \A r2 \in Radii :
            last.value.r <= r2
              => \A j \in 1..Len(last.result) :
                   \E e \in 1..Len(withinRadiusOf(cityCache[last.id].cities,
                                                  last.latitude, last.longitude, r2)) :
                     withinRadiusOf(cityCache[last.id].cities,
                                    last.latitude, last.longitude, r2)[e].city
                       = last.result[j]
  /\ (last.op = "findNearest" /\ last.value # Undefined /\ last.result # <<>>)
       => \A r2 \in Radii :
            last.value.r <= r2
              => nearestOf(cityCache[last.id].cities,
                           last.latitude, last.longitude, Num(r2)) # 0

(***************************************************************************)
(* GeoResolver.resolveCoordinates.  The data directory holds the country   *)
(* files of the candidates and neither city nor division files, so that a  *)
(* location names its country only.  Coordinates are whole numbers.        *)
(***************************************************************************)
\* the candidates in the opposite order
countriesReversed == <<CA, US>>

\* the candidates, in the order they are tried: the first two of the list
countriesToCheck == <<US, CA>>

getMinLatitude(h, attrs) ==
  OrElse(Country_get(h, attrs, P(<<"geo", "min_latitude">>), Null), Null)

getMaxLatitude(h, attrs) ==
  OrElse(Country_get(h, attrs, P(<<"geo", "max_latitude">>), Null), Null)

getMinLongitude(h, attrs) ==
  OrElse(Country_get(h, attrs, P(<<"geo", "min_longitude">>), Null), Null)

getMaxLongitude(h, attrs) ==
  OrElse(Country_get(h, attrs, P(<<"geo", "max_longitude">>), Null), Null)

\* the digits a string begins with
RECURSIVE LeadingDigits(_)
LeadingDigits(s) ==
  IF s = <<>> \/ ~IsDigit(Head(s)) THEN <<>>
  ELSE <<Head(s)>> \o LeadingDigits(Tail(s))

\* Number.parseFloat of a whole number: an optional sign and digits, NaN
\* when there is no digit
parseFloat(v) ==
  IF v.t = "number" THEN [nan |-> FALSE, n |-> v.r]
  ELSE IF v.t # "string" THEN [nan |-> TRUE, n |-> 0]
  ELSE LET negative == v.s # <<>> /\ Head(v.s) = "-"
           digits == LeadingDigits(IF negative THEN Tail(v.s) ELSE v.s)
       IN IF digits = <<>> THEN [nan |-> TRUE, n |-> 0]
          ELSE [nan |-> FALSE,
                n |-> IF negative THEN 0 - NumberOf(digits) ELSE NumberOf(digits)]

\* a < b of a number and a parsed number: false when b is NaN
LessThan(a, b) == ~b.nan /\ a < b.n

\* a > b of a number and a parsed number: false when b is NaN
GreaterThan(a, b) == ~b.nan /\ a > b.n

\* the test of the bounds with the longitudes left out
withinLatitudes(h, attrs, latitude, longitude) ==
  LET minLat == parseFloat(OrElse(getMinLatitude(h, attrs), Str(<<"-", "9", "0">>)))
      maxLat == parseFloat(OrElse(getMaxLatitude(h, attrs), Str(<<"9", "0">>)))
  IN ~(LessThan(latitude, minLat) \/ GreaterThan(latitude, maxLat))

\* the test of the bounds in resolveInCountry
withinBounds(h, attrs, latitude, longitude) ==
  LET minLat == parseFloat(OrElse(getMinLatitude(h, attrs), Str(<<"-", "9", "0">>)))
      maxLat == parseFloat(OrElse(getMaxLatitude(h, attrs), Str(<<"9", "0">>)))
      minLon == parseFloat(OrElse(getMinLongitude(h, attrs), Str(<<"-", "1", "8", "0">>)))
      maxLon == parseFloat(OrElse(getMaxLongitude(h, attrs), Str(<<"1", "8", "0">>)))
  IN ~(LessThan(latitude, minLat) \/ GreaterThan(latitude, maxLat)
         \/ LessThan(longitude, minLon) \/ GreaterThan(longitude, maxLon))

\* the GeoLocation of a country, with the place of its city in the table
\* (0: no city)
Location(countryCode, city) == [t |-> "location", s |-> countryCode.s, r |-> city]

\* Country.getDivisions of the country whose alpha-2 code is code: the
\* divisions of its file, in the order of its keys, or null
getDivisions(files, code) ==
  IF ~Truthy(code) \/ ~files[toLowerCase(code.s)].exists THEN Null
  ELSE [t |-> "divisions", s |-> files[toLowerCase(code.s)].divisions, r |-> 0]

\* div.geo?.latitude && div.geo?.longitude
hasCentroid(div) ==
  /\ div.geo # <<>>
  /\ Truthy(Num(div.geo[1].latitude)) /\ Truthy(Num(div.geo[1].longitude))

\* GeoResolver.findNearestDivision: the division found, if any
findNearestDivision(divisions, latitude, longitude) ==
  LET scan[i \in 0..Len(divisions)] ==
        IF i = 0 THEN [nearest |-> <<>>, nearestDistance |-> 0, infinite |-> TRUE]
        ELSE LET div == divisions[i]
                 distance == haversineDistance(latitude, longitude,
                                               div.geo[1].latitude, div.geo[1].longitude)
             IN IF hasCentroid(div)
                     /\ (scan[i - 1].infinite \/ distance < scan[i - 1].nearestDistance)
                THEN [nearest |-> <<[code |-> div.code, name |-> div.name]>>,
                      nearestDistance |-> distance, infinite |-> FALSE]
                ELSE scan[i - 1]
      found == scan[Len(divisions)].nearest
  IN IF found # <<>> /\ found[1].code # <<>> /\ found[1].name # <<>> THEN found ELSE <<>>

\* resolveInCountry once country() has returned or thrown: l is the load,
\* error what country() threw, files the city and the division files
resolveLoaded(l, error, cities, files, countryCode, latitude, longitude, maxDistanceKm) ==
  LET attrs == l.cache[toLowerCase(countryCode)]
      c == loadForCountry(cities, files.cities, countryCode)
      nearestCity == nearestOf(c.cities, latitude, longitude, maxDistanceKm)
      divisions == getDivisions(files.divisions, getIsoAlpha2(l.h, attrs))
      division == IF nearestCity # 0
                  THEN <<[code |-> c.cities[nearestCity].stateCode,
                          name |-> c.cities[nearestCity].state]>>
                  ELSE IF Truthy(divisions)
                  THEN findNearestDivision(divisions.s, latitude, longitude)
                  ELSE <<>>
  IN IF error # "ok"
     THEN [error |-> error, ret |-> Undefined, division |-> <<>>,
           h |-> l.h, cache |-> l.cache, cities |-> cities]
     ELSE IF ~withinBounds(l.h, attrs, latitude, longitude)
     THEN [error |-> "ok", ret |-> Null, division |-> <<>>,
           h |-> l.h, cache |-> l.cache, cities |-> cities]
     ELSE [error |-> "ok", ret |-> Location(getIsoAlpha2(l.h, attrs), nearestCity),
           division |-> division, h |-> l.h, cache |-> l.cache, cities |-> c.cache]

\* GeoResolver.resolveInCountry: what it returns or throws, and the heap
\* and the caches after it
resolveInCountry(h, cache, cities, src, files, countryCode, latitude, longitude, maxDistanceKm) ==
  CHOOSE result \in
    UNION {{resolveLoaded(l, error, cities, files, countryCode,
                          latitude, longitude, maxDistanceKm) :
              error \in {IF l.error # "ok" THEN l.error
                         ELSE Country_constructor(l.h, l.cache[toLowerCase(countryCode)])}} :
            l \in {loadCached(cache, h, src, toLowerCase(countryCode))}} : TRUE

\* the hint and the loop of resolveCoordinates: the first country of codes
\* that gives a location
RECURSIVE resolveFirst(_, _, _, _, _, _, _, _, _)
resolveFirst(h, cache, cities, src, files, codes, latitude, longitude, maxDistanceKm) ==
  IF codes = <<>>
  THEN [error |-> "ok", ret |-> Null, division |-> <<>>,
        h |-> h, cache |-> cache, cities |-> cities]
  ELSE CHOOSE end \in
         {IF result.error # "ok" \/ Truthy(result.ret) THEN result
          ELSE resolveFirst(result.h, result.cache, result.cities, src, files,
                            Tail(codes), latitude, longitude, maxDistanceKm) :
            result \in {resolveInCountry(h, cache, cities, src, files, Head(codes),
                                         latitude, longitude, maxDistanceKm)}} : TRUE

\* GeoResolver.resolveCoordinates(latitude, longitude, options)
resolveCoordinates(latitude, longitude, options) ==
  \E maxCityDistanceKm \in {IF options.maxCityDistanceKm = Undefined THEN Num(50)
                            ELSE options.maxCityDistanceKm} :
  \E codes \in {(IF Truthy(options.countryCodeHint)
                 THEN <<options.countryCodeHint.s>> ELSE <<>>) \o countriesToCheck} :
  \E run \in {resolveFirst(heap, countryCache, cityCache, source,
                           [cities |-> cityFiles, divisions |-> divisionFiles], codes,
                           latitude, longitude, maxCityDistanceKm)} :
    /\ CommitHeap(run.h, run.cache, recs, served,
                  [NoCall EXCEPT !.op = "resolveCoordinates", !.latitude = latitude,
                     !.longitude = longitude, !.value = options.countryCodeHint,
                     !.outcome = run.error, !.ret = run.ret,
                     !.maxDistanceKm = maxCityDistanceKm, !.result = run.division])
    /\ cityCache' = run.cities
    /\ UNCHANGED <<source, cityFiles, divisionFiles>>

\* the country files of the candidates with bounding boxes, whole or in
\* part or none, the second candidate's file there or not; nothing loaded
InitGeo ==
  /\ heap = <<>>
  /\ \E usText \in {"US", "US boxed", "US latitudes"},
        caText \in {"CA", "CA origin", "absent"} :
       source = [f \in Files |-> IF f = us THEN usText ELSE IF f = ca THEN caText ELSE "LIST"]
  /\ countryCache = [f \in Files |-> Undefined]
  /\ recs = <<>>
  /\ literal = Undefined
  /\ cityFiles = NoCityFiles
  /\ cityCache = NoCityCache
  /\ divisionFiles = NoDivisionFiles
  /\ served = [f \in Files |-> NotServed]
  /\ last = NoCall

\* the coordinates of the points asked for
Coordinates == {-2, 0, 1, 3}

NextGeo ==
  \E latitude \in Coordinates, longitude \in Coordinates, hint \in {Undefined, Str(CA)} :
    resolveCoordinates(latitude, longitude,
                       [maxCityDistanceKm |-> Undefined, countryCodeHint |-> hint])

GeoSpec == InitGeo /\ [][NextGeo]_vars

\* the point lies strictly outside the bounds that box records
StrictlyOutside(latitude, longitude, box) ==
  \/ box.min_latitude # <<>> /\ latitude < box.min_latitude[1]
  \/ box.max_latitude # <<>> /\ latitude > box.max_latitude[1]
  \/ box.min_longitude # <<>> /\ longitude < box.min_longitude[1]
  \/ box.max_longitude # <<>> /\ longitude > box.max_longitude[1]

\* the point of the last call lies strictly outside the box of every
\* candidate
OutsideEveryCandidate ==
  \A i \in 1..Len(countriesToCheck) :
    StrictlyOutside(last.latitude, last.longitude,
                    GeoBox(source[toLowerCase(countriesToCheck[i])]))

\* C20: resolveCoordinates without a hint returns not-found (null, no error)
\* for every point strictly outside the recorded bounding box of every
\* candidate country.
C20_OutsideEveryBoxIsNotFound ==
  (last.op = "resolveCoordinates" /\ ~Truthy(last.value) /\ OutsideEveryCandidate)
    => last.outcome = "ok" /\ last.ret = Null

\* C20's case: a call without a hint has returned not-found for a point
\* whose latitude is within the latitudes of the first candidate and whose
\* longitude is beyond its longitudes
C20_Witness ==
  /\ last.op = "resolveCoordinates" /\ ~Truthy(last.value) /\ OutsideEveryCandidate
  /\ last.outcome = "ok" /\ last.ret = Null
  /\ source[us] = "US boxed"
  /\ last.latitude = 1 /\ last.longitude = 3

\* C21: resolveCoordinates returns a GeoLocation or not-found and never
\* throws, whatever the state of the data files, a candidate or hinted
\* country without a file included.
C21_ResolveNeverThrows ==
  last.op = "resolveCoordinates" => last.outcome = "ok"

\* the codes in the order the last call is to try them: the hint, if one
\* was given, then US, CA
TriedInOrder ==
  (IF Truthy(last.value) THEN <<last.value.s>> ELSE <<>>) \o <<US, CA>>

\* the places in TriedInOrder of the countries whose file records a box
\* that contains the point of the last call
Containing ==
  {i \in 1..Len(TriedInOrder) :
     /\ source[toLowerCase(TriedInOrder[i])] # "absent"
     /\ ~StrictlyOutside(last.latitude, last.longitude,
                         GeoBox(source[toLowerCase(TriedInOrder[i])]))}

\* C22: resolveCoordinates returns the first country, in the order hint
\* then US, CA, whose bounding box contains the point, with neither city
\* nor region when none resolves, and not-found when no box contains it.
C22_FirstMatchWins ==
  (last.op = "resolveCoordinates" /\ last.outcome = "ok")
    => IF Containing = {} THEN last.ret = Null
       ELSE last.ret = Location(Str(TriedInOrder[CHOOSE i \in Containing :
                                                   \A j \in Containing : i <= j]), 0)

\* C22's case: the boxes of both candidates contain the point; the call
\* with the hint CA has returned Canada, which the list has second
C22_Witness ==
  /\ last.op = "resolveCoordinates" /\ last.outcome = "ok"
  /\ last.value = Str(CA)
  /\ Containing = {1, 2, 3}
  /\ last.ret = Location(Str(CA), 0)

(***************************************************************************)
(* The region of a location.  The cities, the centroids of the divisions   *)
(* and the points lie on the meridian of longitude 1.                      *)
(***************************************************************************)
\* a city with its state
CityIn(latitude, stateCode, state) ==
  [latitude |-> latitude, longitude |-> 1, stateCode |-> stateCode, state |-> state]

\* a division, with its centroid or without
Division(code, name, geo) == [code |-> code, name |-> name, geo |-> geo]

\* what a division records of its centroid: nothing, or its coordinates
Centroids == {<<>>} \cup {<<[latitude |-> n, longitude |-> 1]>> : n \in {0, 1, 3}}

\* the first candidate without a box, with or without a city and with or
\* without a division file
InitRegion ==
  /\ heap = <<>>
  /\ source = [f \in Files |-> IF f = us THEN "US" ELSE IF f = ca THEN "CA" ELSE "LIST"]
  /\ countryCache = [f \in Files |-> Undefined]
  /\ recs = <<>>
  /\ literal = Undefined
  /\ \E table \in {<<>>, <<CityIn(2, <<"NY">>, <<"New York">>)>>} :
       cityFiles = [c \in CityCodes |-> IF c = us THEN table ELSE <<>>]
  /\ cityCache = NoCityCache
  /\ \E file \in {[exists |-> FALSE, divisions |-> <<>>]}
                   \cup {[exists |-> TRUE,
                          divisions |-> <<Division(<<"AL">>, <<"Alabama">>, a),
                                          Division(<<"TX">>, <<"Texas">>, b)>>] :
                           a \in Centroids, b \in Centroids} :
       divisionFiles = [c \in CityCodes |->
                          IF c = us THEN file ELSE [exists |-> FALSE, divisions |-> <<>>]]
  /\ served = [f \in Files |-> NotServed]
  /\ last = NoCall

NextRegion ==
  \E latitude \in Latitudes, maxCityDistanceKm \in {Num(1), Num(2)} :
    resolveCoordinates(latitude, 1,
                       [maxCityDistanceKm |-> maxCityDistanceKm, countryCodeHint |-> Undefined])

RegionSpec == InitRegion /\ [][NextRegion]_vars

\* the divisions of the country the last call returned, and those among
\* them that record a centroid
DivisionsOf == divisionFiles[toLowerCase(last.ret.s)].divisions

Recorded == {i \in 1..Len(DivisionsOf) : DivisionsOf[i].geo # <<>>}

CentroidDistance(i) == Abs(DivisionsOf[i].geo[1].latitude - last.latitude)

\* C23: in the country returned, when a city is found within the maximum
\* the region is the city's state; when none is found it is the division
\* of smallest distance among those that record a centroid, whatever the
\* distance, and it is omitted only if no division records a centroid.
C23_RegionOfCityOrNearestDivision ==
  (last.op = "resolveCoordinates" /\ last.outcome = "ok" /\ last.ret # Null)
    => IF last.ret.r # 0
       THEN LET city == cityCache[toLowerCase(last.ret.s)].cities[last.ret.r]
            IN /\ Abs(city.latitude - last.latitude) <= last.maxDistanceKm.r
               /\ last.result = <<[code |-> city.stateCode, name |-> city.state]>>
       ELSE IF Recorded = {} THEN last.result = <<>>
       ELSE \E i \in Recorded :
              /\ \A j \in Recorded : CentroidDistance(i) <= CentroidDistance(j)
              /\ last.result = <<[code |-> DivisionsOf[i].code, name |-> DivisionsOf[i].name]>>

(***************************************************************************)
(* The pick-first accessors of Country, on a record whose native names,    *)
(* currencies and languages have no, one or two entries, in either order.  *)
(***************************************************************************)
\* String.prototype.toUpperCase, symbol by symbol
UpperSym(c) ==
  CASE c = "u" -> "U" [] c = "s" -> "S" [] c = "d" -> "D" [] c = "e" -> "E"
    [] c = "r" -> "R" [] c = "g" -> "G" [] c = "b" -> "B" [] c = "p" -> "P"
    [] OTHER -> c

toUpperCase(s) == [i \in 1..Len(s) |-> UpperSym(s[i])]

\* the body shared by getCurrency (mapping = currency, upper case) and
\* getLanguage (mapping = languages, lower case)
pickFirst(h, attrs, given, mapping, upper) ==
  LET code == IF Truthy(given)
              THEN Str(IF upper THEN toUpperCase(given.s) ELSE toLowerCase(given.s))
              ELSE Null
      byCode == IF Truthy(code)
                THEN Country_get(h, attrs, <<mapping, ".">> \o code.s, Null)
                ELSE Null
      all == Country_get(h, attrs, <<mapping>>, Null)
      first == IF Truthy(all) /\ all.t = "object" THEN FirstKey(h, all) ELSE Undefined
  IN IF Truthy(byCode) THEN byCode
     ELSE IF Truthy(first) THEN Prop(h, all, first.s)
     ELSE Null

getCurrency(h, attrs, currency) == pickFirst(h, attrs, currency, "currency", TRUE)

getLanguage(h, attrs, languageCode) == pickFirst(h, attrs, languageCode, "languages", FALSE)

eng == <<"e", "n", "g">>

spa == <<"s", "p", "a">>

USD == <<"U", "S", "D">>

EUR == <<"E", "U", "R">>

\* the entries of a mapping: none, one, or two in either order
Shapes == {<<>>, <<1>>, <<1, 2>>, <<2, 1>>}

\* a record whose name.native has the entries `native` of eng, spa and
\* whose currency and languages have the entries `other` of USD, EUR and
\* of eng, spa: root, name, native, currency, languages, then the entries
\* of native and of currency
PickTree(native, other) ==
  LET n == Len(native)
  IN [cells |->
        << <<E("name", Obj(2)), E("native_name", W("Native Test Country")),
             E("native_official_name", W("Native Official Test Country")),
             E("iso_3166_1_alpha2", Str(<<"T", "C">>)),
             E("iso_3166_1_alpha3", Str(<<"T", "S", "T">>)),
             E("currency", Obj(4)), E("languages", Obj(5))>>,
           <<E("common", W("Test Country")), E("official", W("Official Test Country")),
             E("native", Obj(3))>>,
           [i \in 1..n |-> Entry(<<eng, spa>>[native[i]], Obj(5 + i))],
           [i \in 1..Len(other) |-> Entry(<<USD, EUR>>[other[i]], Obj(5 + n + i))],
           [i \in 1..Len(other) |->
              Entry(<<eng, spa>>[other[i]], W(<<"English", "Spanish">>[other[i]]))] >>
        \o [i \in 1..n |->
              <<E("common", W(<<"Test", "Prueba">>[native[i]])),
                E("official", W(<<"Official Test", "Prueba oficial">>[native[i]]))>>]
        \o [i \in 1..Len(other) |->
              <<E("name", W(<<"US Dollar", "Euro">>[other[i]])),
                E("symbol", W(<<"$", "EUR">>[other[i]]))>>],
      v |-> Obj(1)]

\* what every accessor call leaves behind
accessed(op, r, code, ret) ==
  /\ Commit(heap, countryCache, recs, served,
            [NoCall EXCEPT !.op = op, !.r = r, !.value = code, !.outcome = "ok",
               !.ret = ret])
  /\ UNCHANGED source

callGetNativeName(r, code) ==
  accessed("getNativeName", r, code, getNativeName(heap, recs[r].attributes, code))

callGetNativeOfficialName(r, code) ==
  accessed("getNativeOfficialName", r, code,
           getNativeOfficialName(heap, recs[r].attributes, code))

callGetCurrency(r, code) ==
  accessed("getCurrency", r, code, getCurrency(heap, recs[r].attributes, code))

callGetLanguage(r, code) ==
  accessed("getLanguage", r, code, getLanguage(heap, recs[r].attributes, code))

InitPick ==
  /\ \E native \in Shapes, other \in Shapes :
       /\ heap = PickTree(native, other).cells
       /\ literal = PickTree(native, other).v
  /\ recs = <<[attributes |-> literal]>>
  /\ Country_constructor(heap, literal) = "ok"
  /\ source = [f \in Files |-> IF f = us THEN "US" ELSE IF f = ca THEN "CA" ELSE "LIST"]
  /\ countryCache = [f \in Files |-> Undefined]
  /\ served = [f \in Files |-> NotServed]
  /\ cityFiles = NoCityFiles
  /\ cityCache = NoCityCache
  /\ divisionFiles = NoDivisionFiles
  /\ last = NoCall

\* the codes the accessors are called with: none, one of the two in
\* either case, one the mappings do not have
LanguageCodes == {Undefined, Str(eng), Str(spa), Str(<<"S", "P", "A">>), Str(<<"d", "e", "u">>)}

CurrencyCodes == {Undefined, Str(USD), Str(EUR), Str(<<"e", "u", "r">>), Str(<<"G", "B", "P">>)}

NextPick ==
  \/ \E r \in 1..Len(recs), code \in LanguageCodes : callGetNativeName(r, code)
  \/ \E r \in 1..Len(recs), code \in LanguageCodes : callGetNativeOfficialName(r, code)
  \/ \E r \in 1..Len(recs), code \in CurrencyCodes : callGetCurrency(r, code)
  \/ \E r \in 1..Len(recs), code \in LanguageCodes : callGetLanguage(r, code)

PickSpec == InitPick /\ [][NextPick]_vars

\* the mapping the last accessor call reads, and its keys in insertion order
MappingOf ==
  LET attrs == recs[last.r].attributes
  IN CASE last.op \in {"getNativeName", "getNativeOfficialName"}
            -> Prop(heap, Prop(heap, attrs, <<"name">>), <<"native">>)
       [] last.op = "getCurrency" -> Prop(heap, attrs, <<"currency">>)
       [] last.op = "getLanguage" -> Prop(heap, attrs, <<"languages">>)

KeysOf == [i \in 1..Len(heap[MappingOf.r]) |-> heap[MappingOf.r][i].k]

\* the given code as the mapping writes its codes
CodeOf ==
  IF last.value = Undefined THEN <<>>
  ELSE IF last.op = "getCurrency" THEN toUpperCase(last.value.s) ELSE toLowerCase(last.value.s)

\* what the accessor is to return of the entry under key k
EntryOf(k) ==
  CASE last.op = "getNativeName" -> Prop(heap, Prop(heap, MappingOf, k), <<"common">>)
    [] last.op = "getNativeOfficialName" -> Prop(heap, Prop(heap, MappingOf, k), <<"official">>)
    [] OTHER -> Prop(heap, MappingOf, k)

IsPick == last.op \in {"getNativeName", "getNativeOfficialName", "getCurrency", "getLanguage"}

\* C24: a pick-first accessor returns the entry for the given code when the
\* mapping has it, otherwise the entry under the first key in insertion
\* order, and null only when the mapping has no entry.
C24_PickFirstFallsBackToFirstKey ==
  IsPick
    => /\ (\E i \in 1..Len(KeysOf) : KeysOf[i] = CodeOf) => last.ret = EntryOf(CodeOf)
       /\ (KeysOf # <<>> /\ ~\E i \in 1..Len(KeysOf) : KeysOf[i] = CodeOf)
            => last.ret = EntryOf(KeysOf[1])
       /\ last.ret = Null => KeysOf = <<>>

\* C24's case: getLanguage was given a code the mapping does not have, and
\* has returned the entry of the first key, spa, where the keys are spa, eng
C24_Witness ==
  /\ last.op = "getLanguage"
  /\ last.value = Str(<<"d", "e", "u">>)
  /\ KeysOf = <<spa, eng>>
  /\ last.ret = W("Spanish")

(***************************************************************************)
(* Requests for a country issued together on an empty cache.  country()    *)
(* is synchronous: a request runs from its lookup to its return without    *)
(* another request in between, so an interleaving is an order of whole     *)
(* requests.  The callers keep the instances; no file is written.          *)
(***************************************************************************)
InitConcurrent ==
  /\ heap = <<>>
  /\ \E usText \in Contents(us), caText \in {"CA", "absent"} :
       source = [f \in Files |-> IF f = us THEN usText ELSE IF f = ca THEN caText ELSE "LIST"]
  /\ countryCache = [f \in Files |-> Undefined]
  /\ recs = <<>>
  /\ literal = Undefined
  /\ cityFiles = NoCityFiles
  /\ cityCache = NoCityCache
  /\ divisionFiles = NoDivisionFiles
  /\ served = [f \in Files |-> NotServed]
  /\ last = NoCall

NextConcurrent ==
  \E c \in {US, us, CA}, hydrate \in BOOLEAN : country(c, hydrate, hydrate)

ConcurrentSpec == InitConcurrent /\ [][NextConcurrent]_vars

\* C25: requests for one identifier on an empty cache converge, in every
\* order: each returns (or wraps) the one entry the cache holds for the
\* identifier, which is the data the first of them returned, and every
\* instance handed out wraps the entry of its identifier.
C25_ConcurrentRequestsConverge ==
  /\ (last.op = "country" /\ last.outcome = "ok")
       => /\ last.ret = countryCache[last.id]
          /\ last.servedBefore # NotServed => last.ret = last.servedBefore
  /\ \A i \in 1..Len(recs) :
       \E f \in Files :
         /\ countryCache[f] = recs[i].attributes
         /\ Tree(heap, recs[i].attributes) = FileTree(source[f])

\* C25's case: two requests for US, spelt differently, have each been given
\* an instance; the second found the entry the first had loaded
C25_Witness ==
  /\ Len(recs) = 2
  /\ recs[1].attributes = recs[2].attributes
  /\ last.op = "country" /\ last.outcome = "ok" /\ ~last.loaded
  /\ last.ret = countryCache[us]

(***************************************************************************)
(* Invalidation: the two caches are cleared and the files behind them are  *)
(* rewritten, between the loads.                                           *)
(***************************************************************************)
\* CityLoader.loadForCountry(countryCode), called by itself
callLoadForCountry(countryCode) ==
  \E l \in {loadForCountry(cityCache, cityFiles, countryCode)} :
    /\ cityCache' = l.cache
    /\ last' = [NoCall EXCEPT !.op = "loadForCountry", !.id = toLowerCase(countryCode),
                  !.outcome = "ok", !.loaded = ~cityCache[toLowerCase(countryCode)].has,
                  !.result = l.cities]
    /\ UNCHANGED <<heap, source, countryCache, recs, literal, cityFiles, divisionFiles, served>>

\* a clearCache() that leaves the entries where they are
clearNothing ==
  /\ last' = [NoCall EXCEPT !.op = "clearCache"]
  /\ UNCHANGED <<heap, source, countryCache, recs, literal, cityFiles, cityCache,
                 divisionFiles, served>>

\* CityLoader.clearCache()
clearCache ==
  /\ cityCache' = NoCityCache
  /\ last' = [NoCall EXCEPT !.op = "clearCache"]
  /\ UNCHANGED <<heap, source, countryCache, recs, literal, cityFiles, divisionFiles, served>>

\* the city file of a country rewritten
writeCityFile(code, table) ==
  /\ table # cityFiles[code]
  /\ cityFiles' = [cityFiles EXCEPT ![code] = table]
  /\ last' = [NoCall EXCEPT !.op = "writeCityFile", !.id = code]
  /\ UNCHANGED <<heap, source, countryCache, recs, literal, cityCache, divisionFiles, served>>

\* the contents the city file is given
CityTables == {<<CityData(1)>>, <<CityData(2), CityData(3)>>}

InitInvalidation ==
  /\ heap = <<>>
  /\ source = [f \in Files |-> IF f = us THEN "US" ELSE IF f = ca THEN "CA" ELSE "LIST"]
  /\ countryCache = [f \in Files |-> Undefined]
  /\ recs = <<>>
  /\ literal = Undefined
  /\ \E table \in CityTables :
       cityFiles = [c \in CityCodes |-> IF c = us THEN table ELSE <<>>]
  /\ cityCache = NoCityCache
  /\ divisionFiles = NoDivisionFiles
  /\ served = [f \in Files |-> NotServed]
  /\ last = NoCall

NextInvalidation ==
  \/ \E hydrate \in BOOLEAN : country(US, hydrate, hydrate)
  \/ countries(FALSE, FALSE, FALSE)
  \/ \E f \in {us, shortlist} : \E text \in Contents(f) \ {Malformed, "null", "{}"} :
       writeFile(f, text)
  \/ resetCache
  \/ callLoadForCountry(US)
  \/ \E table \in CityTables : writeCityFile(us, table)
  \/ clearCache

InvalidationSpec == InitInvalidation /\ [][NextInvalidation]_vars

\* C26: once the country cache is reset, or clearCache() is called, nothing
\* is cached; and a load that finds no entry for its identifier reads the
\* source again and returns what the source holds at that moment, whatever
\* was cached before the invalidation.
C26_InvalidatedLoadsReadTheSourceAgain ==
  /\ last.op = "resetCache" => \A f \in Files : countryCache[f] = Undefined
  /\ last.op = "clearCache" => cityCache = NoCityCache
  /\ (last.op \in {"country", "countries"} /\ last.cacheBefore[last.id] = Undefined)
       => /\ last.loaded
          /\ last.outcome = "ok" => /\ last.ret = countryCache[last.id]
                                    /\ Tree(heap, last.ret) = FileTree(source[last.id])
  /\ (last.op = "loadForCountry" /\ last.loaded)
       => /\ last.result = cityFiles[last.id]
          /\ cityCache[last.id] = [has |-> TRUE, cities |-> cityFiles[last.id]]

\* a country loaded again after a rewrite and a reset: the instance kept
\* from before holds the old data, the call returned the new
C26_Witness ==
  /\ last.op = "country" /\ last.loaded /\ last.outcome = "ok"
  /\ source[us] = "US modified"
  /\ Len(recs) = 2
  /\ Tree(heap, recs[1].attributes) = FileTree("US")
  /\ Tree(heap, recs[2].attributes) = FileTree("US modified")
  /\ cityCache[us].has /\ cityCache[us].cities # cityFiles[us]

(***************************************************************************)
(* CountryCollection.where with the operators that only                    *)
(* CountryLoader.operatorForWhere knows.                                   *)
(***************************************************************************)
\* the operators of operatorForWhere that the switch of
\* CountryCollection.where has no case for, and one that neither has
OtherOperators == {W("="), W("==="), W("<>"), W("!=="), W("~")}

NextOperator ==
  \/ \E property \in WherePaths, operator \in OtherOperators, value \in WhereValues :
       where(property, operator, value)
  \/ \E property \in WherePaths, value \in WhereValues :
       where(property, W("=="), value)

OperatorSpec == InitWhere /\ [][NextOperator]_vars

\* C28: where(path, operator, value) with an operator that is none of ==,
\* !=, <, >, <=, >= returns the empty sequence, on every collection whose
\* records all resolve the path, whether or not a record holds the value.
C28_UnknownOperatorSelectsNothing ==
  (/\ last.op = "where" /\ last.operator \notin Operators
   /\ last.key \in AttributePaths
   /\ \A i \in 1..Len(recs) : Resolve(heap, recs[i].attributes, last.key) # Undefined)
    => last.outcome = "ok" /\ last.result = <<>>

\* where('geo.region', '=', 'Europe') on a collection with a record whose
\* region is Europe has returned nothing
C28_Witness ==
  /\ last.op = "where" /\ last.operator = W("=") /\ last.key = P(<<"geo", "region">>)
  /\ last.value = W("Europe")
  /\ \A i \in 1..Len(recs) : Resolve(heap, recs[i].attributes, last.key) # Undefined
  /\ \E i \in 1..Len(recs) : Resolve(heap, recs[i].attributes, last.key) = last.value
  /\ last.outcome = "ok" /\ last.result = <<>>

(***************************************************************************)
(* The keys of the cache: country codes and the names of the lists.        *)
(***************************************************************************)
\* C27: the data a call of country() returns is never the entry the cache
\* holds under 'shortlist' or 'longlist', the keys of countries().
C27_CountryAndListEntriesApart ==
  (last.op = "country" /\ last.outcome = "ok")
    => \A list \in {shortlist, longlist} : last.ret # countryCache[list]

(***************************************************************************)
(* CityLoader.searchByName and GeoResolver.findCity.  A city is a record   *)
(* of the table; the City instances made for a result are recorded by the  *)
(* places of their records in the table.                                   *)
(***************************************************************************)
\* a record of the city table with its name, state code and population
\* (undefined where the table records none)
CityNamed(name, stateCode, population) ==
  [name |-> name, stateCode |-> Str(stateCode), population |-> population,
   latitude |-> 0, longitude |-> 0]

\* s.includes(q)
includes(s, q) ==
  \E k \in 1..(Len(s) - Len(q) + 1) : SubSeq(s, k, k + Len(q) - 1) = q

\* City.getPopulation() || 0
populationOrZero(city) == OrElse(city.population, Num(0)).r

\* the places left as they are, in the order of the table
unsorted(cities, places) == places

\* results.sort((a, b) => (b.getPopulation() || 0) - (a.getPopulation() || 0)):
\* the sort is stable
RECURSIVE sortByPopulation(_, _)
sortByPopulation(cities, places) ==
  IF places = <<>> THEN <<>>
  ELSE LET sorted == sortByPopulation(cities, SubSeq(places, 1, Len(places) - 1))
           x == places[Len(places)]
           before == SelectSeq(sorted, LAMBDA i :
                       populationOrZero(cities[i]) >= populationOrZero(cities[x]))
           after == SelectSeq(sorted, LAMBDA i :
                      populationOrZero(cities[i]) < populationOrZero(cities[x]))
       IN before \o <<x>> \o after

\* the body of CityLoader.searchByName, on the table loaded
searchByName(cities, query) ==
  LET lowerQuery == toLowerCase(query)
      results == SelectSeq([i \in 1..Len(cities) |-> i],
                           LAMBDA i : includes(toLowerCase(cities[i].name), lowerQuery))
  IN sortByPopulation(cities, results)

\* the body of GeoResolver.findCity after the search: the place of the
\* city returned, 0 for null
cityFound(table, cities, stateCode) ==
  IF Len(cities) = 0 THEN 0
  ELSE LET matching == SelectSeq(cities, LAMBDA i : table[i].stateCode = stateCode)
       IN IF Truthy(stateCode) /\ matching # <<>> THEN matching[1] ELSE cities[1]

\* GeoResolver.findCity(cityName, countryCode, stateCode)
findCity(cityName, countryCode, stateCode) ==
  \E l \in {loadForCountry(cityCache, cityFiles, countryCode)} :
  \E cities \in {searchByName(l.cities, cityName)} :
    /\ cityCache' = l.cache
    /\ last' = [NoCall EXCEPT !.op = "findCity", !.id = toLowerCase(countryCode),
                  !.key = cityName, !.value = stateCode, !.outcome = "ok",
                  !.r = cityFound(l.cities, cities, stateCode)]
    /\ UNCHANGED <<heap, source, countryCache, recs, literal, cityFiles, divisionFiles, served>>

\* city names, state codes and the queries
Spa == <<"S", "p", "a">>

Pau == <<"P", "a", "u">>

NY == <<"N", "Y">>

TX == <<"T", "X">>

Queries == {<<>>, <<"p", "a">>, <<"S", "P">>, <<"a", "u">>, <<"x">>}

StateCodes == {Undefined, Str(NY), Str(TX), Str(<<"A", "L">>), Str(<<>>)}

\* the cities a table is made of
NamedCities ==
  {CityNamed(name, stateCode, population) :
     name \in {Spa, Pau}, stateCode \in {NY, TX}, population \in {Undefined, Num(1)}}

InitFind ==
  /\ heap = <<>>
  /\ source = [f \in Files |-> IF f = us THEN "US" ELSE IF f = ca THEN "CA" ELSE "LIST"]
  /\ countryCache = [f \in Files |-> Undefined]
  /\ recs = <<>>
  /\ literal = Undefined
  /\ \E n \in 0..MaxCities : \E table \in [1..n -> NamedCities] :
       cityFiles = [c \in CityCodes |-> IF c = us THEN table ELSE <<>>]
  /\ cityCache = NoCityCache
  /\ divisionFiles = NoDivisionFiles
  /\ served = [f \in Files |-> NotServed]
  /\ last = NoCall

NextFind ==
  \E cityName \in Queries, stateCode \in StateCodes : findCity(cityName, US, stateCode)

FindSpec == InitFind /\ [][NextFind]_vars

\* the places of the cities of the table whose name contains the query,
\* whatever the case of the letters
NameMatches ==
  {i \in 1..Len(cityFiles[last.id]) :
     includes(toLowerCase(cityFiles[last.id][i].name), toLowerCase(last.key))}

\* the places among NameMatches of the cities in the state asked for
InState == {i \in NameMatches : cityFiles[last.id][i].stateCode = last.value}

\* the population of the city at place i, 0 when the table records none
PopulationAt(i) ==
  IF cityFiles[last.id][i].population = Undefined THEN 0
  ELSE cityFiles[last.id][i].population.r

\* C29: findCity returns null exactly when no city name contains the query;
\* otherwise it returns a most populous name-matching city of the state
\* asked for when a state code is given and the state has one, and a most
\* populous name-matching city of the country in every other case.
C29_FindCityPrefersTheStateThenPopulation ==
  last.op = "findCity"
    => /\ last.r = 0 <=> NameMatches = {}
       /\ NameMatches # {}
            => LET pool == IF last.value # Undefined /\ InState # {}
                           THEN InState ELSE NameMatches
               IN /\ last.r \in pool
                  /\ \A j \in pool : PopulationAt(j) <= PopulationAt(last.r)

\* a state code that no name-matching city has: the city returned is of
\* another state, and more populous than a city before it in the table
C29_Witness ==
  /\ last.op = "findCity" /\ last.value = Str(<<"A", "L">>)
  /\ NameMatches # {} /\ InState = {}
  /\ last.r > 1 /\ 1 \in NameMatches
  /\ PopulationAt(1) < PopulationAt(last.r)

(***************************************************************************)
(* findNearest against findWithinRadius.                                   *)
(***************************************************************************)
\* what the other of the two operations gives for the table, the point and
\* the radius of the last call: the place of the city of findNearest (0
\* for null), and the places of the cities of findWithinRadius
NearestAgain ==
  nearestOf(cityCache[last.id].cities, last.latitude, last.longitude, last.value)

WithinAgain ==
  LET results == withinRadiusOf(cityCache[last.id].cities, last.latitude,
                                last.longitude, last.value.r)
  IN [j \in 1..Len(results) |-> results[j].city]

\* the first place of the table among the cities nearest to the point
FirstNearest ==
  CHOOSE i \in Places :
    /\ \A j \in Places : DistanceOf(i) <= DistanceOf(j)
    /\ \A j \in Places : DistanceOf(j) = DistanceOf(i) => i <= j

\* C30: for a radius r > 0, findNearest(c, lat, lon, r) returns null exactly
\* when findWithinRadius(c, lat, lon, r) is empty, and otherwise the city
\* that findWithinRadius returns first, which is the first in the table of
\* the cities nearest to the point.
C30_NearestIsFirstWithinRadius ==
  /\ (last.op = "findNearest" /\ last.value # Undefined /\ last.value.r > 0)
       => /\ last.result = <<>> <=> WithinAgain = <<>>
          /\ last.result # <<>>
               => last.result[1] = WithinAgain[1] /\ last.result[1] = FirstNearest
  /\ (last.op = "findWithinRadius" /\ last.value.r > 0)
       => /\ last.result = <<>> <=> NearestAgain = 0
          /\ last.result # <<>>
               => last.result[1] = NearestAgain /\ last.result[1] = FirstNearest

\* two cities on either side of the point, equally far and within the
\* radius: findWithinRadius has returned both, the first of the table first
C30_Witness ==
  /\ last.op = "findWithinRadius" /\ last.value.r > 0
  /\ Len(last.result) >= 2
  /\ DistanceOf(last.result[1]) = DistanceOf(last.result[2])
  /\ cityCache[last.id].cities[last.result[1]] # cityCache[last.id].cities[last.result[2]]
  /\ \E i \in Places : DistanceOf(i) > DistanceOf(last.result[1])
  /\ last.result[1] = NearestAgain

====
